---- MODULE Spec2Model ----
(***************************************************************************)
(* Two command-dispatch wrappers around exchange SDKs:                     *)
(*   - the GRVT service (service.py): a persistent process that reads one  *)
(*     JSON request per stdin line and writes one JSON response per line;  *)
(*   - the Extended service (extended_trading_service.py): a one-shot      *)
(*     process that takes a command and a JSON argument from argv.         *)
(* The vendor SDKs are opaque: every SDK call is a nondeterministic choice *)
(* among the outcomes the wrapper distinguishes (a value, an error object, *)
(* an exception).                                                          *)
(***************************************************************************)
EXTENDS Naturals, Sequences, FiniteSets, TLC

VARIABLES
    gpc,        \* GRVT: "reading" at `for line in sys.stdin`, "written" after the flush
    service,    \* GRVT: the module-level `service` (None or the GrvtService object)
    nread,      \* GRVT: stdin lines consumed by the main loop
    nout,       \* GRVT: lines written to stdout
    req,        \* GRVT: the line of the current iteration
    resp,       \* GRVT: the line written in the current iteration
    ran,        \* GRVT: attribute of the service object called in the current iteration
    calls,      \* GRVT: SDK calls made in the current iteration
    issued,     \* GRVT: client order ids and nonces of the requests sent so far,
                \*       and the external ids place_order has returned
    world,      \* GRVT: what random.randint and the SDK gave the current iteration
    proc,       \* Extended: the last one-shot process run (argv, stdout, exit status, ...)
    proc2,      \* Extended: a second run with the same argv but other secrets
    sobj,       \* Extended: an SDK value handed to _serialize_object
    sout        \* Extended: the JSON text printed for it

vars == <<gpc, service, nread, nout, req, resp, ran, calls, issued, world, proc, proc2, sobj, sout>>
grvtVars == <<gpc, service, nread, nout, req, resp, ran, calls, issued, world>>
extVars == <<proc, proc2>>
serVars == <<sobj, sout>>

\* Number of stdin lines the GRVT process is fed.
MaxLines == 3

(***************************************************************************)
(* Python values.  A params/args dict is a record over a fixed key set; a  *)
(* key that is not in the dict holds Absent.  dict.get(k) of an absent key *)
(* is None.                                                                *)
(***************************************************************************)
Absent == "<absent>"
None == "None"

Get(d, k) == IF d[k] = Absent THEN None ELSE d[k]
GetDefault(d, k, dflt) == IF d[k] = Absent THEN dflt ELSE d[k]
Has(d, k) == d[k] # Absent
\* Python truthiness of a string-or-None value
Truthy(v) == v \notin {Absent, None, ""}
\* `a or b`
Or(a, b) == IF Truthy(a) THEN a ELSE b
\* str(KeyError(k))
KeyErrorMsg(k) == "'" \o k \o "'"

\* A local variable: F applied to the value of e, with e evaluated once.
Bind(e, F(_)) == CHOOSE r \in { F(x) : x \in {e} } : TRUE

(***************************************************************************)
(* Values an SDK response is made of, and JSON.  A value is a leaf (a      *)
(* Decimal, a float, an int, a str, None) or a container of values (a      *)
(* dict, a list, a tuple, an object with a __dict__, an object that only   *)
(* has to_dict()).                                                         *)
(***************************************************************************)
Leaf(t, v) == [t |-> t, v |-> v, items |-> <<>>]
Cont(t, items) == [t |-> t, v |-> "", items |-> items]
PyLeaves == { Leaf("Decimal", "2.5"), Leaf("float", "1.5"), Leaf("int", "7"),
              Leaf("str", "x"), Leaf("none", "null") }
PyContainers == {"dict", "list", "tuple", "object", "todict"}

\* Nesting depth of the values handed to the serializer.
SerDepth == 2

\* Values nested at most d deep (a container deeper than 1 holds one item)
RECURSIVE SerValues(_)
SerValues(d) ==
    IF d = 0 THEN PyLeaves
    ELSE SerValues(d - 1) \cup
         { Cont(t, <<x>>) : t \in PyContainers, x \in SerValues(d - 1) } \cup
         (IF d = 1
          THEN { Cont(t, <<x, y>>) : t \in PyContainers, x \in PyLeaves, y \in PyLeaves }
          ELSE {})

\* json.dumps(v) succeeds: it raises TypeError on a Decimal and on an object
RECURSIVE Dumpable(_)
Dumpable(v) ==
    /\ v.t \notin {"Decimal", "object", "todict"}
    /\ \A i \in 1..Len(v.items) : Dumpable(v.items[i])

\* The JSON text json.dumps writes for a value it accepts
RECURSIVE ToJson(_)
ToJson(v) ==
    CASE v.t = "str" -> Leaf("string", v.v)
      [] v.t \in {"float", "int"} -> Leaf("number", v.v)
      [] v.t = "none" -> Leaf("null", "null")
      [] v.t = "dict" -> Cont("object", [i \in 1..Len(v.items) |-> ToJson(v.items[i])])
      [] OTHER -> Cont("array", [i \in 1..Len(v.items) |-> ToJson(v.items[i])])

(***************************************************************************)
(* GRVT service (service.py)                                               *)
(***************************************************************************)

\* Keys of a request's params dict that the service reads.
GCredKeys == {"account_id", "private_key", "api_key", "environment",
              "trading_account_id", "trading_api_key", "trading_private_key",
              "funding_address", "funding_private_key", "funding_api_key"}
GArgKeys == {"market_name", "side", "amount", "price", "order_type", "post_only",
             "reduce_only", "external_id", "instrument", "direction", "currency",
             "limit", "cursor", "chain_id", "stark_address", "vault_id"}
\* "_type" is the JSON type of the params value: "dict", or "list" for a
\* params value that is not an object.
GKeys == GCredKeys \cup GArgKeys \cup {"_type"}

GEmpty == [k \in GKeys |-> IF k = "_type" THEN "dict" ELSE Absent]
GNonDict == [GEmpty EXCEPT !["_type"] = "list"]

\* A well-formed request body for every handler, with credentials (a, k, p).
GBase(a, k, p) ==
    [GEmpty EXCEPT !["account_id"] = a, !["private_key"] = k, !["api_key"] = p,
                   !["funding_address"] = "0xfund", !["funding_private_key"] = "fk",
                   !["funding_api_key"] = "fapi",
                   !["market_name"] = "BTC_USDT_Perp", !["side"] = "BUY",
                   !["amount"] = "1", !["price"] = "100", !["external_id"] = "123",
                   !["vault_id"] = "7"]
GBase1 == GBase("a1", "k1", "p1")
GBase2 == GBase("a2", "k2", "p2")

\* Requests that differ in their credentials.
GCredVariants ==
    { GBase1, GBase2, GEmpty, GNonDict,
      [GBase1 EXCEPT !["api_key"] = Absent],
      [GBase1 EXCEPT !["private_key"] = "bad", !["funding_private_key"] = Absent],
      [GBase2 EXCEPT !["account_id"] = Absent, !["trading_account_id"] = "a3",
                     !["environment"] = "mainnet"] }

\* The 12 public handlers of GrvtService.
GrvtHandlers == {"get_account_info", "get_markets", "get_positions", "place_order",
                 "cancel_order_by_external_id", "cancel_all_orders", "transfer",
                 "transfer_history", "withdraw", "get_order_history",
                 "vault_invest", "vault_redeem"}
\* Instance attributes set by __init__/_initialize: hasattr is true, none is callable.
GrvtDataAttrs == {"config", "api", "account_id", "private_key", "api_key",
                  "funding_address", "funding_private_key", "funding_api_key",
                  "account", "env"}
\* Other attributes every instance has: the private helper, the constructor,
\* the class, a method inherited from object.
GrvtOtherAttrs == {"_initialize", "__init__", "__class__", "__eq__"}
GrvtAttrs == GrvtHandlers \cup GrvtDataAttrs \cup GrvtOtherAttrs
\* Command names a request line may carry (Absent: no "command" key).
GCommands == GrvtHandlers \cup GrvtOtherAttrs \cup
             {"config", "api", "foo", "getMarkets", "", Absent}

\* Requests that differ in the arguments of one handler.
GArgVariants(cmd) ==
    CASE cmd = "place_order" ->
            { [GBase1 EXCEPT !["side"] = s] : s \in {Absent, "SELL", "foo"} } \cup
            { [GBase1 EXCEPT !["market_name"] = Absent],
              [GBase1 EXCEPT !["amount"] = Absent],
              [GBase1 EXCEPT !["price"] = Absent],
              [GBase1 EXCEPT !["order_type"] = "MARKET"],
              [GBase1 EXCEPT !["order_type"] = "MARKET", !["price"] = Absent] }
      [] cmd = "cancel_order_by_external_id" ->
            { [GBase1 EXCEPT !["external_id"] = x] : x \in {Absent, "0xabc", "12a", "21", "22"} }
      [] cmd = "cancel_all_orders" ->
            { [GBase1 EXCEPT !["instrument"] = "BTC_USDT_Perp"] }
      [] cmd = "transfer" ->
            { [GBase1 EXCEPT !["amount"] = Absent],
              [GBase1 EXCEPT !["direction"] = "to_funding"],
              [GBase1 EXCEPT !["funding_address"] = Absent],
              [GBase1 EXCEPT !["funding_private_key"] = Absent],
              [GBase1 EXCEPT !["funding_private_key"] = "bad"],
              [GBase1 EXCEPT !["funding_api_key"] = Absent] }
      [] cmd = "withdraw" ->
            { [GBase1 EXCEPT !["amount"] = Absent],
              [GBase1 EXCEPT !["chain_id"] = "ETH"] }
      [] cmd \in {"vault_invest", "vault_redeem"} ->
            { [GBase1 EXCEPT !["vault_id"] = Absent],
              [GBase1 EXCEPT !["vault_id"] = "x"],
              [GBase1 EXCEPT !["amount"] = Absent],
              [GBase1 EXCEPT !["amount"] = "abc"],
              [GBase1 EXCEPT !["funding_address"] = Absent] }
      [] OTHER -> {}

\* A stdin line: blank, text that is not JSON, a JSON value that is not an
\* object, or an object with a command and params.
GLine(kind, cmd, params) == [kind |-> kind, command |-> cmd, params |-> params]
GLines ==
    { GLine(k, Absent, GEmpty) : k \in {"blank", "text", "nonobj"} } \cup
    { GLine("obj", c, p) : c \in GCommands, p \in GCredVariants } \cup
    UNION { { GLine("obj", c, p) : p \in GArgVariants(c) } : c \in GrvtHandlers }

(***************************************************************************)
(* The GrvtService object.                                                 *)
(***************************************************************************)

\* The part of the params dict that GrvtService keeps and reads as self.config.
GConfigOf(p) == [k \in GCredKeys \cup {"_type"} |-> p[k]]

\* `service = None`, and the attribute values of an object under construction.
NoService ==
    [live |-> FALSE, inits |-> 0, config |-> GConfigOf(GEmpty),
     account_id |-> None, private_key |-> None, api_key |-> None,
     funding_address |-> None, funding_private_key |-> None,
     funding_api_key |-> None, account |-> None, env |-> None, api |-> None]

\* Account.from_key accepts a well-formed private key only.
GoodKeys == {"k1", "k2", "fk"}

\* Lines 55-62: the trading_* aliases are copied into the dict when the plain
\* key is missing (`in` on a params value that is a list finds no key).
AliasConfig(c) ==
    [k \in DOMAIN c |->
        CASE k = "account_id" /\ Has(c, "trading_account_id") /\ ~Has(c, "account_id") ->
                c["trading_account_id"]
          [] k = "api_key" /\ Has(c, "trading_api_key") /\ ~Has(c, "api_key") ->
                c["trading_api_key"]
          [] k = "private_key" /\ Has(c, "trading_private_key") /\ ~Has(c, "private_key") ->
                c["trading_private_key"]
          [] OTHER -> c[k]]

\* Lines 93-99
EnvOf(envStr) ==
    CASE envStr = "mainnet" -> "PROD"
      [] envStr = "staging" -> "STAGING"
      [] OTHER -> "TESTNET"

InitPrefix == "Failed to initialize GRVT API: "

\* Lines 53, 63: self.config = config; self.api = None
InitStart(old, cfg) ==
    [old EXCEPT !.live = TRUE, !.inits = old.inits + 1, !.config = cfg, !.api = None]

\* Lines 79-84: the credentials are read from the config
InitCreds(s0, cfg) ==
    [s0 EXCEPT !.account_id = Or(Get(cfg, "trading_account_id"), Get(cfg, "account_id")),
               !.private_key = Or(Get(cfg, "trading_private_key"), Get(cfg, "private_key")),
               !.api_key = Or(Get(cfg, "trading_api_key"), Get(cfg, "api_key")),
               !.funding_address = Get(cfg, "funding_address"),
               !.funding_private_key = Get(cfg, "funding_private_key"),
               !.funding_api_key = Get(cfg, "funding_api_key")]

\* Lines 86-114, on the object s1 whose credentials are read; s0 is the
\* object as __init__ left it before _initialize.
InitRest(s0, s1, cfg, sdkInit) ==
    CASE cfg["_type"] # "dict" ->
            [raised |-> TRUE, svc |-> s0,
             msg |-> InitPrefix \o "'list' object has no attribute 'get'"]
      [] ~Truthy(s1.account_id) \/ ~Truthy(s1.private_key) \/ ~Truthy(s1.api_key) ->
            [raised |-> TRUE, svc |-> s1,
             msg |-> InitPrefix \o "Missing required credentials: account_id, private_key, api_key"]
      [] Or(s1.funding_private_key, s1.private_key) \notin GoodKeys ->
            [raised |-> TRUE, svc |-> s1, msg |-> InitPrefix \o "invalid private key"]
      [] sdkInit = "raise" ->
            [raised |-> TRUE, msg |-> InitPrefix \o "sdk failure",
             svc |-> [s1 EXCEPT !.account = Or(s1.funding_private_key, s1.private_key),
                                !.env = EnvOf(GetDefault(cfg, "environment", "testnet"))]]
      [] OTHER ->
            [raised |-> FALSE, msg |-> "",
             svc |-> [s1 EXCEPT !.account = Or(s1.funding_private_key, s1.private_key),
                                !.env = EnvOf(GetDefault(cfg, "environment", "testnet")),
                                !.api = "client"]]

\* GrvtService.__init__ and _initialize run on the object `old` with the
\* params dict `params`; sdkInit is what GrvtRawSync(config) does ("ok" or
\* "raise").  The result tells whether an exception left __init__, and the
\* attribute values the object is left with.
GrvtInit(old, params, sdkInit) ==
    Bind(AliasConfig(GConfigOf(params)), LAMBDA cfg :
        Bind(InitStart(old, cfg), LAMBDA s0 :
            Bind(IF cfg["_type"] = "dict" THEN InitCreds(s0, cfg) ELSE s0, LAMBDA s1 :
                InitRest(s0, s1, cfg, sdkInit))))

(***************************************************************************)
(* Python results.  A handler result is a dict, a list, None or an object; *)
(* `keys` are a dict's keys, `error` the value under "error", `ser` tells  *)
(* whether json.dumps accepts the value, `val` holds the other values the  *)
(* claims read.                                                            *)
(***************************************************************************)
NoVal == [none |-> ""]
ResErr(msg) == [kind |-> "dict", keys |-> {"error"}, error |-> msg, ser |-> TRUE, val |-> NoVal]
ResDict(keys, val) == [kind |-> "dict", keys |-> keys, error |-> "", ser |-> TRUE, val |-> val]
ResList(ser) == [kind |-> "list", keys |-> {}, error |-> "", ser |-> ser, val |-> NoVal]
ResNone == [kind |-> "none", keys |-> {}, error |-> "", ser |-> TRUE, val |-> NoVal]
ResObject == [kind |-> "object", keys |-> {}, error |-> "", ser |-> FALSE, val |-> NoVal]
\* What a handler (or any called attribute) did: it returned `res`, or an
\* exception with message `msg` left it; `calls` are the SDK calls it made.
Returned(res, cs) == [raised |-> FALSE, res |-> res, msg |-> "", calls |-> cs]
Raised(msg, cs) == [raised |-> TRUE, res |-> ResNone, msg |-> msg, calls |-> cs]

SdkCall(op, arg) == [op |-> op, arg |-> arg]
\* What an SDK call does: returns a value, returns a GrvtError, or raises.
SdkOutcomes == {"ok", "error", "raise"}
SdkErrorMsg == "GrvtError(code=1000)"
SdkRaiseMsg == "sdk failure"
NoApiMsg(op) == "'NoneType' object has no attribute '" \o op \o "'"
NotADictMsg == "'list' object has no attribute 'get'"

(***************************************************************************)
(* GRVT handlers.  Each handler is `try: <body> except Exception as e:     *)
(* return {'error': str(e)}`; X_body is the try block, X the handler.      *)
(* svc: the service object; p: the params dict; o: the outcomes of the SDK *)
(* calls the body makes (o.a, o.b, o.c in call order) and the values the   *)
(* body draws or receives (o.nonce, o.cid: random.randint; o.oid: the      *)
(* order_id of the exchange's response).                                   *)
(***************************************************************************)

\* int(x) of a string: the decimal strings among the values of the model.
PyIntParses(x) == x \in {"0", "1", "2", "3", "7", "11", "12", "21", "22", "25", "50", "100", "123"}
\* float(x) of a string
PyFloatParses(x) == PyIntParses(x) \/ x \in {"0.5", "1.5"}

\* except Exception as e: return {'error': str(e)}
Catch(r) == IF r.raised THEN Returned(ResErr(r.msg), r.calls) ELSE r
\* Lines 478-480: except Exception as e: return {'error': str(e), 'traceback': ...}
CatchWithTraceback(r) ==
    IF r.raised
    THEN Returned([kind |-> "dict", keys |-> {"error", "traceback"}, error |-> r.msg,
                   ser |-> TRUE, val |-> NoVal], r.calls)
    ELSE r

\* One SDK call on self.api whose result is reshaped into `ok`.
GrvtApiCall(svc, op, arg, outcome, ok) ==
    CASE svc.api = None -> Raised(NoApiMsg(op), <<>>)
      [] outcome = "raise" -> Raised(SdkRaiseMsg, <<SdkCall(op, arg)>>)
      [] outcome = "error" -> Returned(ResErr(SdkErrorMsg), <<SdkCall(op, arg)>>)
      [] OTHER -> Returned(ok, <<SdkCall(op, arg)>>)

AccountInfoKeys == {"available_for_trade", "available_for_withdrawal", "unrealised_pnl",
                    "realised_pnl", "total_balance"}

get_account_info_body(svc, p, o) ==
    GrvtApiCall(svc, "account_summary_v1", [sub_account_id |-> svc.account_id], o.a,
                ResDict(AccountInfoKeys, NoVal))
get_account_info(svc, p, o) == Catch(get_account_info_body(svc, p, o))

get_markets_body(svc, p, o) ==
    GrvtApiCall(svc, "get_all_instruments_v1", [is_active |-> "True"], o.a, ResList(TRUE))
get_markets(svc, p, o) == Catch(get_markets_body(svc, p, o))

get_positions_body(svc, p, o) ==
    GrvtApiCall(svc, "positions_v1", [sub_account_id |-> svc.account_id], o.a, ResList(TRUE))
get_positions(svc, p, o) == Catch(get_positions_body(svc, p, o))

PlaceOrderKeys == {"external_id", "order_id", "client_order_id", "grvt_order_id", "status"}

\* Lines 226-257: the order built from the params
GrvtOrder(svc, p, o) ==
    LET is_market == GetDefault(p, "order_type", "LIMIT") = "MARKET"
    IN [sub_account_id |-> svc.account_id,
        time_in_force |-> IF is_market THEN "IMMEDIATE_OR_CANCEL" ELSE "GOOD_TILL_TIME",
        is_market |-> is_market,
        post_only |-> GetDefault(p, "post_only", "False"),
        reduce_only |-> GetDefault(p, "reduce_only", "False"),
        instrument |-> p["market_name"],
        size |-> p["amount"],
        limit_price |-> GetDefault(p, "price", "0"),
        is_buying_asset |-> (p["side"] = "BUY"),
        nonce |-> o.nonce,
        client_order_id |-> o.cid]

\* PlaceOrderResult reporting the exchange's order_id whatever it is
PlaceOrderResult_raw(o) ==
    ResDict(PlaceOrderKeys,
            [external_id |-> Get(o, "oid"), order_id |-> Get(o, "oid"),
             client_order_id |-> o.cid, grvt_order_id |-> Get(o, "oid"), status |-> "NEW"])

\* Lines 279-297: the result built from the exchange's response
PlaceOrderResult(o) ==
    LET order_id == Get(o, "oid")
        final_order_id == IF ~Truthy(order_id) \/ order_id = "0x00" THEN o.cid ELSE order_id
    IN ResDict(PlaceOrderKeys,
               [external_id |-> final_order_id, order_id |-> final_order_id,
                client_order_id |-> o.cid, grvt_order_id |-> order_id, status |-> "NEW"])

place_order_body(svc, p, o) ==
    LET instr == SdkCall("get_all_instruments_v1", [is_active |-> "True"])
        create == SdkCall("create_order_v1", GrvtOrder(svc, p, o))
    IN  CASE p["_type"] # "dict" -> Raised(NotADictMsg, <<>>)
          [] ~Has(p, "market_name") -> Raised(KeyErrorMsg("market_name"), <<>>)
          [] ~Has(p, "amount") -> Raised(KeyErrorMsg("amount"), <<>>)
          [] ~Has(p, "side") -> Raised(KeyErrorMsg("side"), <<>>)
          [] svc.api = None -> Raised(NoApiMsg("get_all_instruments_v1"), <<>>)
          [] o.a = "raise" -> Raised(SdkRaiseMsg, <<instr>>)
          [] o.a = "error" ->
                Returned(ResErr("Failed to get instruments: " \o SdkErrorMsg), <<instr>>)
          [] o.b = "raise" -> Raised(SdkRaiseMsg, <<instr>>)    \* sign_order
          [] o.c = "raise" -> Raised(SdkRaiseMsg, <<instr, create>>)
          [] o.c = "error" -> Returned(ResErr(SdkErrorMsg), <<instr, create>>)
          [] OTHER -> Returned(PlaceOrderResult(o), <<instr, create>>)
place_order(svc, p, o) == Catch(place_order_body(svc, p, o))

\* CancelRequest always filling the client_order_id field
CancelRequest_client(svc, external_id) ==
    [sub_account_id |-> svc.account_id, client_order_id |-> external_id, order_id |-> Absent]

\* Lines 308-320: the cancel request; a field that is not set holds Absent.
CancelRequest(svc, external_id) ==
    IF external_id # None /\ PyIntParses(external_id)
    THEN [sub_account_id |-> svc.account_id, client_order_id |-> external_id,
          order_id |-> Absent]
    ELSE [sub_account_id |-> svc.account_id, client_order_id |-> Absent,
          order_id |-> external_id]    \* str(None) = 'None'

cancel_order_by_external_id_body(svc, p, o) ==
    IF p["_type"] # "dict" THEN Raised(NotADictMsg, <<>>)
    ELSE GrvtApiCall(svc, "cancel_order_v1", CancelRequest(svc, Get(p, "external_id")),
                     o.a, ResDict({"success"}, NoVal))
cancel_order_by_external_id(svc, p, o) == Catch(cancel_order_by_external_id_body(svc, p, o))

cancel_all_orders_body(svc, p, o) ==
    IF p["_type"] # "dict" THEN Raised(NotADictMsg, <<>>)
    ELSE GrvtApiCall(svc, "cancel_all_orders_v1",
                     [sub_account_id |-> svc.account_id,
                      instrument |-> IF Truthy(Get(p, "instrument")) THEN p["instrument"] ELSE Absent],
                     o.a, ResDict({"success", "cancelled_count"}, NoVal))
cancel_all_orders(svc, p, o) == Catch(cancel_all_orders_body(svc, p, o))

TransferKeys == {"success", "tx_id", "ack", "direction", "amount", "currency",
                 "from_account", "from_sub_account", "to_sub_account"}

\* Lines 359-362, 590-593, 705-708: the funding credentials, from the params
\* or else from the service
Funding(svc, p) ==
    [address |-> Or(Get(p, "funding_address"), svc.funding_address),
     private_key |-> Or(Get(p, "funding_private_key"), svc.funding_private_key),
     api_key |-> Or(Get(p, "funding_api_key"), svc.funding_api_key),
     trading_account_id |-> Or(Get(p, "trading_account_id"), svc.account_id)]

\* Lines 375-416: the transfer that is signed and sent
TransferRequest(svc, p, o) ==
    LET f == Funding(svc, p)
        direction == GetDefault(p, "direction", "to_trading")
    IN [from_account_id |-> f.address, to_account_id |-> f.address,
        from_sub_account_id |-> IF direction = "to_trading" THEN "0" ELSE f.trading_account_id,
        to_sub_account_id |-> IF direction = "to_trading" THEN f.trading_account_id ELSE "0",
        currency |-> GetDefault(p, "currency", "USDC"),
        num_tokens |-> p["amount"], nonce |-> o.nonce,
        api_key |-> f.api_key, private_key |-> f.private_key]

transfer_body(svc, p, o) ==
    LET f == Funding(svc, p)
        t == TransferRequest(svc, p, o)
        call == SdkCall("transfer_v1", t)
        ok == ResDict(TransferKeys,
                      [direction |-> GetDefault(p, "direction", "to_trading"),
                       amount |-> t.num_tokens, currency |-> t.currency,
                       from_account |-> t.from_account_id,
                       from_sub_account |-> t.from_sub_account_id,
                       to_sub_account |-> t.to_sub_account_id])
    IN  CASE p["_type"] # "dict" -> Raised(NotADictMsg, <<>>)
          [] ~Truthy(f.address) -> Returned(ResErr("Funding address is required"), <<>>)
          [] ~Truthy(f.private_key) -> Returned(ResErr("Funding private key is required"), <<>>)
          [] ~Truthy(f.api_key) -> Returned(ResErr("Funding API key is required"), <<>>)
          [] f.private_key \notin GoodKeys -> Raised("invalid private key", <<>>)
          [] ~Has(p, "amount") -> Raised(KeyErrorMsg("amount"), <<>>)
          [] o.a = "raise" -> Raised(SdkRaiseMsg, <<>>)    \* sign_transfer, GrvtRawSync
          [] o.b = "raise" -> Raised(SdkRaiseMsg, <<call>>)
          [] o.b = "error" -> Returned(ResErr(SdkErrorMsg), <<call>>)
          [] OTHER -> Returned(ok, <<call>>)
transfer(svc, p, o) == CatchWithTraceback(transfer_body(svc, p, o))

transfer_history_body(svc, p, o) ==
    IF p["_type"] # "dict" THEN Raised(NotADictMsg, <<>>)
    ELSE GrvtApiCall(svc, "transfer_history_v1",
                     [sub_account_id |-> svc.account_id,
                      limit |-> IF Truthy(Get(p, "limit")) THEN p["limit"] ELSE Absent,
                      cursor |-> IF Truthy(Get(p, "cursor")) THEN p["cursor"] ELSE Absent],
                     o.a, ResDict({"transfers", "next"}, NoVal))
transfer_history(svc, p, o) == Catch(transfer_history_body(svc, p, o))

\* Lines 528-532
ChainOf(chain_id) ==
    CASE chain_id = "ETH" -> "ETHEREUM"
      [] chain_id = "STRK" -> "STARKNET"
      [] OTHER -> chain_id

withdraw_body(svc, p, o) ==
    CASE p["_type"] # "dict" -> Raised(NotADictMsg, <<>>)
      [] svc.config["_type"] # "dict" -> Raised(NotADictMsg, <<>>)
      [] ~Has(p, "amount") -> Raised(KeyErrorMsg("amount"), <<>>)
      [] OTHER ->
            GrvtApiCall(svc, "withdrawal_v1",
                        [from_account_id |-> Get(svc.config, "account_id"),
                         from_sub_account_id |-> "0",
                         currency |-> GetDefault(p, "currency", "USDC"),
                         num_tokens |-> p["amount"],
                         chain_id |-> ChainOf(GetDefault(p, "chain_id", "STRK")),
                         stark_address |-> IF Truthy(Get(p, "stark_address"))
                                           THEN p["stark_address"] ELSE Absent],
                        o.a, ResDict({"withdrawal_id"}, NoVal))
withdraw(svc, p, o) == Catch(withdraw_body(svc, p, o))

\* Lines 578-580: the SDK's list of Order objects is returned as it is; only
\* an empty list (o.b = "empty") is something json.dumps accepts.
get_order_history_body(svc, p, o) ==
    IF p["_type"] # "dict" THEN Raised(NotADictMsg, <<>>)
    ELSE GrvtApiCall(svc, "order_history_v1",
                     [sub_account_id |-> svc.account_id,
                      limit |-> GetDefault(p, "limit", "50"),
                      instrument |-> IF Truthy(Get(p, "instrument")) THEN p["instrument"] ELSE Absent],
                     o.a, ResList(o.b = "empty"))
get_order_history(svc, p, o) == Catch(get_order_history_body(svc, p, o))

VaultKeys == {"success", "ack", "vault_id", "amount", "currency"}

\* vault_invest (584-697) and vault_redeem (699-811) differ in the message
\* type and the SDK method only.
vault_body(op, svc, p, o) ==
    LET f == Funding(svc, p)
        call == SdkCall(op, [main_account_id |-> f.address, vault_id |-> p["vault_id"],
                             currency |-> GetDefault(p, "currency", "USDC"),
                             num_tokens |-> p["amount"], nonce |-> o.nonce,
                             api_key |-> f.api_key, private_key |-> f.private_key])
        ok == ResDict(VaultKeys, [vault_id |-> p["vault_id"], amount |-> p["amount"],
                                  currency |-> GetDefault(p, "currency", "USDC")])
    IN  CASE p["_type"] # "dict" -> Raised(NotADictMsg, <<>>)
          [] ~Truthy(f.address) -> Returned(ResErr("Funding address is required"), <<>>)
          [] ~Truthy(f.private_key) -> Returned(ResErr("Funding private key is required"), <<>>)
          [] ~Truthy(f.api_key) -> Returned(ResErr("Funding API key is required"), <<>>)
          [] f.private_key \notin GoodKeys -> Raised("invalid private key", <<>>)
          [] ~Has(p, "vault_id") -> Raised(KeyErrorMsg("vault_id"), <<>>)
          [] ~Has(p, "amount") -> Raised(KeyErrorMsg("amount"), <<>>)
          [] ~PyIntParses(p["vault_id"]) ->
                Raised("invalid literal for int() with base 10: '" \o p["vault_id"] \o "'", <<>>)
          [] ~PyFloatParses(p["amount"]) ->
                Raised("could not convert string to float: '" \o p["amount"] \o "'", <<>>)
          [] o.a = "raise" -> Raised(SdkRaiseMsg, <<>>)    \* signing, GrvtRawSync
          [] o.b = "raise" -> Raised(SdkRaiseMsg, <<call>>)
          [] o.b = "error" -> Returned(ResErr(SdkErrorMsg), <<call>>)
          [] OTHER -> Returned(ok, <<call>>)
vault_invest(svc, p, o) == Catch(vault_body("vault_invest_v1", svc, p, o))
vault_redeem(svc, p, o) == Catch(vault_body("vault_redeem_v1", svc, p, o))

\* getattr(service, command)(params) for a handler name
GrvtHandler(cmd, svc, p, o) ==
    CASE cmd = "get_account_info" -> get_account_info(svc, p, o)
      [] cmd = "get_markets" -> get_markets(svc, p, o)
      [] cmd = "get_positions" -> get_positions(svc, p, o)
      [] cmd = "place_order" -> place_order(svc, p, o)
      [] cmd = "cancel_order_by_external_id" -> cancel_order_by_external_id(svc, p, o)
      [] cmd = "cancel_all_orders" -> cancel_all_orders(svc, p, o)
      [] cmd = "transfer" -> transfer(svc, p, o)
      [] cmd = "transfer_history" -> transfer_history(svc, p, o)
      [] cmd = "withdraw" -> withdraw(svc, p, o)
      [] cmd = "get_order_history" -> get_order_history(svc, p, o)
      [] cmd = "vault_invest" -> vault_invest(svc, p, o)
      [] cmd = "vault_redeem" -> vault_redeem(svc, p, o)

(***************************************************************************)
(* The GRVT main loop (lines 815-841).                                     *)
(***************************************************************************)

\* The values random.randint draws and the order ids the exchange assigns
\* (Absent: the response has no order_id).
Nonces == {"11", "12"}
ClientIds == {"21", "22"}
ExchangeIds == {Absent, "", "0x00", "0xabc"}

O0 == [init |-> "ok", a |-> "ok", b |-> "ok", c |-> "ok",
       nonce |-> "11", cid |-> "21", oid |-> "0xabc"]

\* The outcomes that matter to a call of the attribute `cmd`.
GCallChoices(cmd) ==
    CASE cmd = "place_order" ->
            { [O0 EXCEPT !.a = x] : x \in {"error", "raise"} } \cup
            { [O0 EXCEPT !.b = "raise"] } \cup
            { [O0 EXCEPT !.c = x] : x \in {"error", "raise"} } \cup
            { [O0 EXCEPT !.nonce = n, !.cid = c, !.oid = i] :
                  n \in Nonces, c \in ClientIds, i \in ExchangeIds }
      [] cmd \in {"transfer", "vault_invest", "vault_redeem"} ->
            { [O0 EXCEPT !.a = "raise"] } \cup
            { [O0 EXCEPT !.b = x] : x \in {"error", "raise"} } \cup
            { [O0 EXCEPT !.nonce = n] : n \in Nonces }
      [] cmd = "get_order_history" ->
            { [O0 EXCEPT !.a = x] : x \in SdkOutcomes } \cup { [O0 EXCEPT !.b = "empty"] }
      [] cmd \in GrvtHandlers -> { [O0 EXCEPT !.a = x] : x \in SdkOutcomes }
      [] OTHER -> {O0}

\* The outcomes that matter to serving `line` when the service is `svc`.
GChoices(svc, line) ==
    LET constructs == line.kind = "obj" /\
                      (~svc.live \/ line.command \in {"__init__", "__class__"})
    IN { [o EXCEPT !.init = i] :
            o \in (IF line.kind = "obj" THEN GCallChoices(line.command) ELSE {O0}),
            i \in (IF constructs THEN {"ok", "raise"} ELSE {"ok"}) }

\* What calling an attribute did: r is what the call returned or raised,
\* name the attribute that ran ("" when none did), after the service object
\* afterwards.
Dispatched(r, name, after) ==
    [raised |-> r.raised, res |-> r.res, msg |-> r.msg, calls |-> r.calls,
     ran |-> name, svc |-> after]

\* service.__init__(params): the constructor runs again on the same object
ReInit(svc, p, o) ==
    Bind(GrvtInit(svc, p, o.init), LAMBDA i :
        Dispatched(IF i.raised THEN Raised(i.msg, <<>>) ELSE Returned(ResNone, <<>>),
                   "__init__", i.svc))

\* service.__class__(params): another object is constructed and returned
NewInstance(svc, p, o) ==
    Bind(GrvtInit(NoService, p, o.init), LAMBDA i :
        Dispatched(IF i.raised THEN Raised(i.msg, <<>>) ELSE Returned(ResObject, <<>>),
                   "__class__", svc))

\* Lines 830-833: `getattr(service, command)(params) if hasattr(service,
\* command) else {'error': 'Unknown command: ...'}` on the service object svc.
GrvtDispatch(svc, command, p, o) ==
    CASE command = None ->
            Dispatched(Raised("attribute name must be string, not 'NoneType'", <<>>), "", svc)
      [] command \in GrvtHandlers ->
            Bind(GrvtHandler(command, svc, p, o), LAMBDA r : Dispatched(r, command, svc))
      [] command \in GrvtDataAttrs ->
            Dispatched(Raised("object is not callable", <<>>), "", svc)
      [] command = "_initialize" ->
            Dispatched(Raised("_initialize() takes 1 positional argument but 2 were given", <<>>),
                       "", svc)
      [] command = "__init__" -> ReInit(svc, p, o)
      [] command = "__class__" -> NewInstance(svc, p, o)
      [] command = "__eq__" ->
            Dispatched(Returned(ResObject, <<>>), "__eq__", svc)    \* NotImplemented
      [] OTHER ->
            Dispatched(Returned(ResErr("Unknown command: " \o command), <<>>), "", svc)

\* A line of stdout: {"data": <result>} or {"error": <string>}
DataLine(res) == [key |-> "data", data |-> res, error |-> ""]
ErrorLine(msg) == [key |-> "error", data |-> ResNone, error |-> msg]
NoLine == [key |-> "", data |-> ResNone, error |-> ""]

\* What one iteration of the loop did: the line written, the number of lines
\* written, the value of `service` afterwards.
Served(l, after, name, cs) ==
    [line |-> l, written |-> 1, svc |-> after, ran |-> name, calls |-> cs]

\* Emit without the `except Exception` of lines 839-841: a result json.dumps
\* rejects leaves the iteration with nothing written.
Emit_uncaught(d) ==
    CASE d.raised -> Served(ErrorLine(d.msg), d.svc, d.ran, d.calls)
      [] ~d.res.ser -> [line |-> NoLine, written |-> 0, svc |-> d.svc, ran |-> d.ran,
                        calls |-> d.calls]
      [] OTHER -> Served(DataLine(d.res), d.svc, d.ran, d.calls)

\* Lines 835-841: the result d of the dispatch is written
Emit(d) ==
    CASE d.raised -> Served(ErrorLine(d.msg), d.svc, d.ran, d.calls)
      [] ~d.res.ser -> Served(ErrorLine("Object is not JSON serializable"), d.svc, d.ran, d.calls)
      [] OTHER -> Served(DataLine(d.res), d.svc, d.ran, d.calls)

\* Lines 826-841 for a request object, `service` being None
FirstRequest(svc, line, o) ==
    Bind(GrvtInit(NoService, line.params, o.init), LAMBDA created :
        IF created.raised THEN Served(ErrorLine(created.msg), svc, "", <<>>)
        ELSE Bind(GrvtDispatch(created.svc, Get(line, "command"), line.params, o),
                  LAMBDA d : Emit(d)))

\* MainLoopBody answering from a worker: the iteration ends, and the next
\* line is read, before the response of a request object is written.
MainLoopBody_deferred(svc, line, o) ==
    IF line.kind = "obj"
    THEN Bind(IF svc.live
              THEN Emit(GrvtDispatch(svc, Get(line, "command"), line.params, o))
              ELSE FirstRequest(svc, line, o),
              LAMBDA r : [r EXCEPT !.line = NoLine, !.written = 0])
    ELSE Served(ErrorLine("Expecting value: line 1 column 1 (char 0)"), svc, "", <<>>)

\* One iteration of `for line in sys.stdin` (lines 819-841): what is written
\* and what `service` is afterwards.
MainLoopBody(svc, line, o) ==
    CASE line.kind \in {"blank", "text"} ->
            Served(ErrorLine("Expecting value: line 1 column 1 (char 0)"), svc, "", <<>>)
      [] line.kind = "nonobj" ->
            Served(ErrorLine("'list' object has no attribute 'get'"), svc, "", <<>>)
      [] ~svc.live -> FirstRequest(svc, line, o)
      [] OTHER ->
            Bind(GrvtDispatch(svc, Get(line, "command"), line.params, o), LAMBDA d : Emit(d))

NoReq == GLine("none", Absent, GEmpty)

\* Lines 221, 256: the client order ids of the orders sent by the calls cs
CidsOf(cs) ==
    { cs[i].arg.client_order_id : i \in { j \in 1..Len(cs) : cs[j].op = "create_order_v1" } }
\* Lines 220, 395, 614, 729: the nonces of the signed requests sent by the calls cs
NoncesOf(cs) ==
    { cs[i].arg.nonce : i \in { j \in 1..Len(cs) : "nonce" \in DOMAIN cs[j].arg } }

\* Lines 290-297: the external_id a successful place_order hands to the
\* caller, with where it came from: the generated client order id (o.cid) or
\* the order id the exchange assigned (o.oid)
PlacedOf(r, o) ==
    IF r.ran = "place_order" /\ r.line.key = "data" /\ r.line.data.keys = PlaceOrderKeys
    THEN { [id |-> r.line.data.val.external_id, origin |-> g] :
              g \in { h \in {"client", "exchange"} :
                          \/ h = "client" /\ r.line.data.val.external_id = o.cid
                          \/ h = "exchange" /\ r.line.data.val.external_id = o.oid } }
    ELSE {}

\* One iteration of the loop: a line is read, served and answered.
ServeLine(line, o) ==
    /\ gpc = "reading"
    /\ nread < MaxLines
    /\ \E r \in {MainLoopBody(service, line, o)} :
          /\ service' = r.svc
          /\ nread' = nread + 1
          /\ nout' = nout + r.written
          /\ req' = line
          /\ resp' = r.line
          /\ ran' = r.ran
          /\ calls' = r.calls
          /\ issued' = [cids |-> issued.cids \cup CidsOf(r.calls),
                        nonces |-> issued.nonces \cup NoncesOf(r.calls),
                        placed |-> issued.placed \cup PlacedOf(r, o)]
    /\ world' = o
    /\ gpc' = "written"
    /\ UNCHANGED <<extVars, serVars>>

\* The loop goes back to `for line in sys.stdin`; the iteration's locals
\* (request, command, params, result) are dead.
LoopBack ==
    /\ gpc = "written"
    /\ gpc' = "reading"
    /\ req' = NoReq
    /\ resp' = NoLine
    /\ ran' = ""
    /\ calls' = <<>>
    /\ world' = O0
    /\ UNCHANGED <<service, nread, nout, issued>>
    /\ UNCHANGED <<extVars, serVars>>

GrvtInitState ==
    /\ gpc = "reading"
    /\ service = NoService
    /\ nread = 0
    /\ nout = 0
    /\ req = NoReq
    /\ resp = NoLine
    /\ ran = ""
    /\ calls = <<>>
    /\ issued = [cids |-> {}, nonces |-> {}, placed |-> {}]
    /\ world = O0

ExtIdle == [status |-> "idle"]
NoJson == Leaf("", "")
SerIdle == sobj = Leaf("none", "null") /\ sout = NoJson

\* What the environment may feed next: a line, and the outcomes of the SDK
\* calls made while it is served.
GInputs(svc) ==
    UNION { { [line |-> l, o |-> o] : o \in GChoices(svc, l) } : l \in GLines }

GrvtNextLine ==
    /\ gpc = "reading"
    /\ nread < MaxLines
    /\ \E i \in GInputs(service) : ServeLine(i.line, i.o)

GrvtNext == GrvtNextLine \/ LoopBack

InitGrvt == GrvtInitState /\ proc = ExtIdle /\ proc2 = ExtIdle /\ SerIdle

SpecGrvt == InitGrvt /\ [][GrvtNext]_vars

(***************************************************************************)
(* Extended service (extended_trading_service.py): one process per command *)
(***************************************************************************)

EKeys == {"api_key", "private_key", "public_key", "vault", "environment",
          "market_name", "order_id", "side", "amount", "price", "order_type",
          "time_in_force", "post_only", "reduce_only", "external_id", "percentage",
          "limit", "stark_address", "chain_in", "chain_out", "quote_id",
          "test_param", "timestamp", "_type"}

\* sys.argv[2]: "_type" is "dict" for a JSON object, "list" for another JSON
\* value, "invalid" for text that is not JSON, "missing" when argv has no
\* third element.
EEmpty == [k \in EKeys |-> IF k = "_type" THEN "dict" ELSE Absent]
EBase(api, priv) ==
    [EEmpty EXCEPT !["api_key"] = api, !["private_key"] = priv,
                   !["public_key"] = "0xpub", !["vault"] = "1001",
                   !["market_name"] = "BTC-USD", !["order_id"] = "55",
                   !["side"] = "BUY", !["amount"] = "1", !["price"] = "100",
                   !["external_id"] = "ext1", !["chain_in"] = "ETH",
                   !["chain_out"] = "STRK", !["quote_id"] = "q1",
                   !["test_param"] = "hello", !["timestamp"] = "1700"]
EBase1 == EBase("apiA", "0xa1")

\* The secret values a caller may supply ("" and "nothex" are not usable keys).
ApiKeys == {"apiA", "apiB", ""}
PrivateKeys == {"0xa1", "0xb2", "nothex", ""}

ECredVariants ==
    { EBase(a, k) : a \in ApiKeys, k \in PrivateKeys } \cup
    { [EBase1 EXCEPT ![k] = Absent] :
          k \in {"api_key", "private_key", "public_key", "vault"} } \cup
    { [EBase1 EXCEPT !["environment"] = "mainnet"], EEmpty } \cup
    { [EEmpty EXCEPT !["_type"] = t] : t \in {"list", "invalid", "missing"} }

\* The 17 commands that main serves with a service object (lines 559-562)
ExtCommands == {"get_markets", "get_account_info", "get_positions", "get_orders",
                "get_order_by_id", "place_order", "cancel_order",
                "cancel_order_by_external_id", "cancel_all_orders", "close_position",
                "get_orderbook", "get_trades", "withdraw", "get_bridge_config",
                "get_bridge_quote", "commit_bridge_quote", "test_params"}
\* Command names argv may carry (Absent: argv has no command).
ECommands == ExtCommands \cup
             {"get_public_key", "foo", "__init__", "_serialize_object",
              "get_stark_public_key", "", Absent}

EArgVariants(cmd) ==
    CASE cmd = "get_order_by_id" ->
            { [EBase1 EXCEPT !["order_id"] = x] : x \in {Absent, "c1", "t1", ""} }
      [] cmd = "place_order" ->
            { [EBase1 EXCEPT ![k] = Absent] : k \in {"market_name", "side", "amount", "price"} } \cup
            { [EBase1 EXCEPT !["side"] = x] : x \in {"SELL", "long", "foo"} } \cup
            { [EBase1 EXCEPT !["amount"] = "abc"], [EBase1 EXCEPT !["price"] = "abc"],
              [EBase1 EXCEPT !["order_type"] = "MARKET"],
              [EBase1 EXCEPT !["time_in_force"] = "IOC"],
              [EBase1 EXCEPT !["reduce_only"] = "True", !["post_only"] = "True"] }
      [] cmd \in {"cancel_order", "cancel_order_by_external_id"} ->
            { [EBase1 EXCEPT !["external_id"] = Absent] }
      [] cmd = "close_position" ->
            { [EBase1 EXCEPT !["market_name"] = Absent],
              [EBase1 EXCEPT !["percentage"] = "50"],
              [EBase1 EXCEPT !["percentage"] = "abc"] }
      [] cmd \in {"get_orderbook", "get_trades"} ->
            { [EBase1 EXCEPT !["market_name"] = Absent] }
      [] cmd = "withdraw" ->
            { [EBase1 EXCEPT !["amount"] = Absent], [EBase1 EXCEPT !["amount"] = "abc"],
              [EBase1 EXCEPT !["stark_address"] = "0xstark"] }
      [] cmd = "get_bridge_quote" ->
            { [EBase1 EXCEPT ![k] = Absent] : k \in {"chain_in", "chain_out", "amount"} } \cup
            { [EBase1 EXCEPT !["amount"] = "abc"] }
      [] cmd = "commit_bridge_quote" -> { [EBase1 EXCEPT !["quote_id"] = Absent] }
      [] cmd = "test_params" ->
            { [EBase1 EXCEPT !["test_param"] = Absent, !["timestamp"] = Absent],
              [EBase1 EXCEPT !["environment"] = "testnet", !["test_param"] = ""] }
      [] OTHER -> {}

\* argv of one process run
EArgv(cmd, args) == [command |-> cmd, args |-> args]
EArgvs ==
    { EArgv(c, a) : c \in ECommands, a \in ECredVariants } \cup
    UNION { { EArgv(c, a) : a \in EArgVariants(c) } : c \in ExtCommands }

(***************************************************************************)
(* The ExtendedTradingService object and its handlers.  e describes the    *)
(* environment of the run: e.sdk (the x10 import succeeded), e.client      *)
(* ("ok" or "fail": the SDK clients could be built), e.a, e.b, e.c (the    *)
(* outcomes of the SDK calls, in call order; e.d: the trades of the second *)
(* market), e.n (open orders), e.oid and e.ocid (id and client_order_id of *)
(* the open order get_order_by_id sees), e.tr (the markets whose trades    *)
(* hold the trade of order "t1"), e.pos (the position of the market),      *)
(* e.size (its size), e.has (the trading client has a cancel_order         *)
(* method).                                                                *)
(***************************************************************************)

\* Private keys StarkPerpetualAccount accepts (hex strings).
GoodStarkKeys == {"0xa1", "0xb2"}

\* ExtendedTradingService.__init__ (lines 35-66) and _initialize_clients
\* (68-89): every failure is caught, reported on stderr and leaves no client.
ExtService(api_key, private_key, public_key, vault, environment, e) ==
    LET client == IF e.sdk /\ private_key \in GoodStarkKeys /\ e.client = "ok"
                  THEN "client" ELSE None
    IN [sdk |-> e.sdk, api_key |-> api_key, private_key |-> private_key,
        public_key |-> public_key, vault |-> vault, environment |-> environment,
        trading_client |-> client, data_client |-> client]

\* str.upper() on the strings of the model
PyUpper(x) ==
    CASE x = "long" -> "LONG"
      [] x = "foo" -> "FOO"
      [] OTHER -> x

\* int(x) of a numeric string
PyNat(x) ==
    CASE x = "0" -> 0 [] x = "1" -> 1 [] x = "2" -> 2 [] x = "3" -> 3 [] x = "7" -> 7
      [] x = "11" -> 11 [] x = "12" -> 12 [] x = "21" -> 21 [] x = "22" -> 22
      [] x = "25" -> 25 [] x = "50" -> 50 [] x = "100" -> 100 [] x = "123" -> 123

\* str(n) of a natural number
Digit(d) ==
    CASE d = 0 -> "0" [] d = 1 -> "1" [] d = 2 -> "2" [] d = 3 -> "3" [] d = 4 -> "4"
      [] d = 5 -> "5" [] d = 6 -> "6" [] d = 7 -> "7" [] d = 8 -> "8" [] d = 9 -> "9"
RECURSIVE NatStr(_)
NatStr(n) == IF n < 10 THEN Digit(n) ELSE NatStr(n \div 10) \o Digit(n % 10)

\* The decimal whose value is h hundredths, written with two decimal places
\* (the number of trailing zeros Decimal.__str__ prints is not modelled).
DecStr(h) == NatStr(h \div 100) \o "." \o Digit((h % 100) \div 10) \o Digit(h % 10)

\* Lines 391-392: str(Decimal(str(size)) * Decimal(str(percentage / 100.0)))
CloseAmount(size, percentage) == DecStr(PyNat(size) * PyNat(percentage))

\* Decimal(x) accepts a numeric string
PyDecimalParses(x) ==
    PyFloatParses(x) \/ x \in { CloseAmount(z, q) : z \in {"2", "3"}, q \in {"25", "50", "100"} }
DecimalErrMsg == "[<class 'decimal.ConversionSyntax'>]"

EClientGuard == "SDK not available or trading client not initialized"
EClientGuard2 == "SDK not available or client not initialized"
EDataGuard == "SDK not available or data client not initialized"

\* A handler of the usual shape: the guard, then one SDK call in a try whose
\* except returns {"error": prefix + str(e)}.
ExtCall(svc, guardMsg, prefix, op, arg, outcome, ok) ==
    CASE ~svc.sdk \/ svc.trading_client = None -> Returned(ResErr(guardMsg), <<>>)
      [] outcome = "raise" -> Returned(ResErr(prefix \o SdkRaiseMsg), <<SdkCall(op, arg)>>)
      [] OTHER -> Returned(ok, <<SdkCall(op, arg)>>)

\* Lines 91-107
ext_get_markets(svc, e) ==
    CASE ~svc.sdk ->
            Returned(ResErr("X10 SDK not available - install x10-python-trading-starknet"), <<>>)
      [] svc.data_client = None ->
            Returned(ResErr("Data client not initialized - check API credentials"), <<>>)
      [] OTHER -> ExtCall(svc, "", "Failed to get markets: ", "get_markets", NoVal, e.a,
                          ResList(TRUE))

\* Lines 129-147
ext_get_account_info(svc, e) ==
    CASE ~svc.sdk ->
            Returned(ResErr("X10 SDK not available - install x10-python-trading-starknet"), <<>>)
      [] svc.trading_client = None ->
            Returned(ResErr("Trading client not initialized - check API credentials"), <<>>)
      [] OTHER -> ExtCall(svc, "", "Failed to get account info: ", "get_balance", NoVal, e.a,
                          ResDict({"balance", "equity"}, NoVal))

\* Lines 149-161
ext_get_positions(svc, e) ==
    ExtCall(svc, EClientGuard, "Failed to get positions: ", "get_positions", NoVal, e.a,
            ResList(TRUE))

\* Lines 163-177
ext_get_orders(svc, market_name, e) ==
    ExtCall(svc, EClientGuard, "Failed to get orders: ", "get_open_orders",
            [market_names |-> market_name], e.a, ResList(TRUE))

NotFoundMsg(order_id) ==
    "Order with ID " \o order_id \o " not found in open orders or available trade history"

\* The markets get_markets lists, in order
Markets == <<"BTC-USD", "ETH-USD">>
\* The order id carried by the trade that get_trades may report
TradeOrderId == "t1"

\* Line 191: an open order (id e.oid; client_order_id e.ocid, Absent when the
\* object has no such attribute) matches when str(order.id) or
\* str(getattr(order, 'client_order_id', '')) equals str(order_id)
OpenMatch(order_id, e) ==
    /\ e.oid # Absent
    /\ \/ e.oid = order_id
       \/ (IF e.ocid = Absent THEN "" ELSE e.ocid) = order_id

\* Lines 207-221: the trades of market k are fetched (outcome e.c for the
\* first market, e.d for the second) and hold, when k is in e.tr, a trade of
\* order TradeOrderId; an order id that is not truthy matches no trade
TradeMatch(order_id, e, k) ==
    /\ (IF k = 1 THEN e.c ELSE e.d) = "ok"
    /\ k \in e.tr
    /\ Truthy(order_id)
    /\ TradeOrderId = order_id

\* Lines 223-234: the order reconstructed from a trade of market k
FilledOrder(order_id, k) ==
    ResDict({"id", "market_name", "status", "type", "side", "amount",
             "filled_amount", "price", "average_price", "created_at"},
            [id |-> order_id, market_name |-> Markets[k], status |-> "FILLED"])

\* Lines 179-249
ext_get_order_by_id(svc, order_id, e) ==
    LET open == SdkCall("get_open_orders", [market_names |-> None])
        markets == SdkCall("get_markets", NoVal)
        trades(k) == SdkCall("get_trades", [market_name |-> Markets[k], limit |-> "100"])
    IN  CASE ~svc.sdk \/ svc.trading_client = None -> Returned(ResErr(EClientGuard), <<>>)
          [] e.a = "raise" ->
                Returned(ResErr("Failed to get order by ID: " \o SdkRaiseMsg), <<open>>)
          [] OpenMatch(order_id, e) ->
                Returned(ResDict({"id", "status"},
                                 [id |-> e.oid, market_name |-> "", status |-> "OPEN"]),
                         <<open>>)
          [] e.b = "raise" -> Returned(ResErr(NotFoundMsg(order_id)), <<open, markets>>)
          [] TradeMatch(order_id, e, 1) ->
                Returned(FilledOrder(order_id, 1), <<open, markets, trades(1)>>)
          [] TradeMatch(order_id, e, 2) ->
                Returned(FilledOrder(order_id, 2), <<open, markets, trades(1), trades(2)>>)
          [] OTHER ->
                Returned(ResErr(NotFoundMsg(order_id)),
                         <<open, markets, trades(1), trades(2)>>)

\* Lines 265-271
TifOf(time_in_force) ==
    CASE PyUpper(time_in_force) = "IOC" -> "IOC"
      [] PyUpper(time_in_force) = "FOK" -> "FOK"
      [] OTHER -> "GTT"

\* Lines 251-290.  order_type is a parameter the body never reads.
ext_place_order(svc, market_name, side, amount, price, order_type, time_in_force, post_only, reduce_only, e) ==
    LET order == [market_name |-> market_name, amount_of_synthetic |-> amount,
                  price |-> price,
                  side |-> IF PyUpper(side) \in {"BUY", "LONG"} THEN "BUY" ELSE "SELL",
                  post_only |-> post_only, reduce_only |-> reduce_only,
                  time_in_force |-> TifOf(time_in_force)]
    IN  CASE ~svc.sdk \/ svc.trading_client = None -> Returned(ResErr(EClientGuard2), <<>>)
          [] ~PyDecimalParses(amount) \/ ~PyDecimalParses(price) ->
                Returned(ResErr("Failed to place order: " \o DecimalErrMsg), <<>>)
          [] OTHER -> ExtCall(svc, EClientGuard2, "Failed to place order: ", "place_order",
                              order, e.b, ResDict({"id", "external_id"}, NoVal))

\* Lines 292-316.  asyncio.run is called while main's event loop runs
\* run_command, so it raises RuntimeError before the coroutine starts; the
\* two print calls write to stdout.
ext_cancel_order(svc, external_id, e) ==
    [raised |-> FALSE, msg |-> "", calls |-> <<>>,
     res |-> ResErr("Cancel order failed: asyncio.run() cannot be called from a running event loop"),
     printed |-> << "DEBUG: cancel_order called with external_id=" \o external_id,
                    "DEBUG: Error in cancel_order: asyncio.run() cannot be called from a running event loop" >>]

\* Lines 318-336
ext_cancel_order_by_external_id(svc, external_id, e) ==
    ExtCall(svc, EClientGuard2, "Cancel order by external ID failed: ",
            "cancel_order_by_external_id", [order_external_id |-> external_id], e.a,
            ResDict({"success", "message", "result"}, NoVal))

\* Lines 356-366: the open orders e.n = k are cancelled one by one; outcome
\* e.b is that of the first cancel, e.c that of the second.
CancelledOf(e) ==
    (IF e.n >= 1 /\ e.b = "ok" THEN {1} ELSE {}) \cup
    (IF e.n >= 2 /\ e.c = "ok" THEN {2} ELSE {})

\* ext_cancel_all_orders trying a failed cancel of the first order again
ext_cancel_all_orders_retry(svc, market_name, e) ==
    LET open == SdkCall("get_open_orders", [market_names |-> market_name])
        cancel(i) == SdkCall("cancel_order", [order_id |-> i])
    IN  CASE ~svc.sdk \/ svc.trading_client = None -> Returned(ResErr(EClientGuard2), <<>>)
          [] e.a = "raise" ->
                Returned(ResErr("Failed to cancel all orders: " \o SdkRaiseMsg), <<open>>)
          [] e.n = 0 ->
                Returned(ResDict({"message", "cancelled_count"},
                                 [cancelled_orders |-> {}, cancelled_count |-> 0]), <<open>>)
          [] ~e.has ->    \* lines 359, 362-364: no cancel_order method, break
                Returned(ResDict({"cancelled_orders", "cancelled_count"},
                                 [cancelled_orders |-> {}, cancelled_count |-> 0]), <<open>>)
          [] OTHER ->
                Returned(ResDict({"cancelled_orders", "cancelled_count"},
                                 [cancelled_orders |-> CancelledOf(e),
                                  cancelled_count |-> Cardinality(CancelledOf(e))]),
                         <<open>> \o (IF e.b = "raise" THEN <<cancel(1)>> ELSE <<>>)
                                  \o [i \in 1..e.n |-> cancel(i)])

\* ext_cancel_all_orders giving up at the first cancel that fails
ext_cancel_all_orders_stop(svc, market_name, e) ==
    LET open == SdkCall("get_open_orders", [market_names |-> market_name])
        cancel(i) == SdkCall("cancel_order", [order_id |-> i])
        tried == IF e.b = "ok" THEN e.n ELSE 1
    IN  CASE ~svc.sdk \/ svc.trading_client = None -> Returned(ResErr(EClientGuard2), <<>>)
          [] e.a = "raise" ->
                Returned(ResErr("Failed to cancel all orders: " \o SdkRaiseMsg), <<open>>)
          [] e.n = 0 ->
                Returned(ResDict({"message", "cancelled_count"},
                                 [cancelled_orders |-> {}, cancelled_count |-> 0]), <<open>>)
          [] ~e.has ->
                Returned(ResDict({"cancelled_orders", "cancelled_count"},
                                 [cancelled_orders |-> {}, cancelled_count |-> 0]), <<open>>)
          [] OTHER ->
                Returned(ResDict({"cancelled_orders", "cancelled_count"},
                                 [cancelled_orders |-> CancelledOf(e) \cap 1..tried,
                                  cancelled_count |-> Cardinality(CancelledOf(e) \cap 1..tried)]),
                         <<open>> \o [i \in 1..tried |-> cancel(i)])

\* Lines 338-371.  e.n open orders with ids 1..e.n; e.has tells whether the
\* trading client has a cancel_order attribute (line 359).
ext_cancel_all_orders(svc, market_name, e) ==
    LET open == SdkCall("get_open_orders", [market_names |-> market_name])
        cancel(i) == SdkCall("cancel_order", [order_id |-> i])
    IN  CASE ~svc.sdk \/ svc.trading_client = None -> Returned(ResErr(EClientGuard2), <<>>)
          [] e.a = "raise" ->
                Returned(ResErr("Failed to cancel all orders: " \o SdkRaiseMsg), <<open>>)
          [] e.n = 0 ->
                Returned(ResDict({"message", "cancelled_count"},
                                 [cancelled_orders |-> {}, cancelled_count |-> 0]), <<open>>)
          [] ~e.has ->    \* lines 359, 362-364: no cancel_order method, break
                Returned(ResDict({"cancelled_orders", "cancelled_count"},
                                 [cancelled_orders |-> {}, cancelled_count |-> 0]), <<open>>)
          [] OTHER ->
                Returned(ResDict({"cancelled_orders", "cancelled_count"},
                                 [cancelled_orders |-> CancelledOf(e),
                                  cancelled_count |-> Cardinality(CancelledOf(e))]),
                         <<open>> \o [i \in 1..e.n |-> cancel(i)])

\* ext_close_position closing the whole position whatever the percentage
ext_close_position_whole(svc, market_name, percentage, e) ==
    CASE ~svc.sdk \/ svc.trading_client = None -> Returned(ResErr(EClientGuard), <<>>)
      [] e.a = "raise" ->
            Returned(ResErr("Failed to get positions: " \o SdkRaiseMsg),
                     <<SdkCall("get_positions", NoVal)>>)
      [] e.pos = "none" ->
            Returned(ResErr("No position found for market " \o market_name),
                     <<SdkCall("get_positions", NoVal)>>)
      [] OTHER ->
            Bind(ext_place_order(svc, market_name,
                                 IF e.pos = "LONG" THEN "SELL" ELSE "BUY",
                                 CloseAmount(e.size, "100"), "0", "MARKET", "GTC",
                                 "False", "False", e),
                 LAMBDA r : Returned(r.res, <<SdkCall("get_positions", NoVal)>> \o r.calls))

\* Lines 373-411.  e.a is the outcome of get_positions, e.pos the side of the
\* position held in the market ("none": no position), e.size its size.
ext_close_position(svc, market_name, percentage, e) ==
    CASE ~svc.sdk \/ svc.trading_client = None -> Returned(ResErr(EClientGuard), <<>>)
      [] e.a = "raise" ->
            Returned(ResErr("Failed to get positions: " \o SdkRaiseMsg),
                     <<SdkCall("get_positions", NoVal)>>)
      [] e.pos = "none" ->
            Returned(ResErr("No position found for market " \o market_name),
                     <<SdkCall("get_positions", NoVal)>>)
      [] ~PyFloatParses(percentage) ->
            Returned(ResErr("Failed to close position: unsupported operand type(s) for /: 'str' and 'float'"),
                     <<SdkCall("get_positions", NoVal)>>)
      [] OTHER ->
            Bind(ext_place_order(svc, market_name,
                                 IF e.pos = "LONG" THEN "SELL" ELSE "BUY",
                                 CloseAmount(e.size, percentage), "0", "MARKET", "GTC",
                                 "False", "False", e),
                 LAMBDA r : Returned(r.res, <<SdkCall("get_positions", NoVal)>> \o r.calls))

\* Lines 413-425
ext_get_orderbook(svc, market_name, e) ==
    CASE ~svc.sdk \/ svc.data_client = None -> Returned(ResErr(EDataGuard), <<>>)
      [] OTHER -> ExtCall(svc, EDataGuard, "Failed to get orderbook: ", "get_orderbook",
                          [market_name |-> market_name], e.a, ResDict({"bid", "ask"}, NoVal))

\* Lines 427-439
ext_get_trades(svc, market_name, limit, e) ==
    CASE ~svc.sdk \/ svc.data_client = None -> Returned(ResErr(EDataGuard), <<>>)
      [] OTHER -> ExtCall(svc, EDataGuard, "Failed to get trades: ", "get_trades",
                          [market_name |-> market_name, limit |-> limit], e.a, ResList(TRUE))

\* Lines 441-484.  withdrawal_response.data goes into the result as it is
\* (lines 472-476): with e.a = "object" it is a value json.dumps rejects.
ext_withdraw(svc, amount, stark_address, e) ==
    CASE ~svc.sdk \/ svc.trading_client = None -> Returned(ResErr(EClientGuard), <<>>)
      [] ~PyDecimalParses(amount) ->
            Returned(ResErr("Failed to submit withdrawal: " \o DecimalErrMsg), <<>>)
      [] OTHER ->
            ExtCall(svc, EClientGuard, "Failed to submit withdrawal: ", "withdraw",
                    [amount |-> amount, chain_id |-> "STRK",
                     stark_address |-> IF Truthy(stark_address) THEN stark_address ELSE Absent],
                    e.a,
                    [kind |-> "dict", error |-> "", ser |-> (e.a # "object"),
                     keys |-> {"withdrawal_id", "amount", "stark_address", "status"},
                     val |-> [amount |-> amount, stark_address |-> stark_address,
                              status |-> "submitted"]])

\* Lines 486-498
ext_get_bridge_config(svc, e) ==
    ExtCall(svc, EClientGuard, "Failed to get bridge config: ", "get_bridge_config", NoVal,
            e.a, ResDict({"chains"}, NoVal))

\* Lines 500-523
ext_get_bridge_quote(svc, chain_in, chain_out, amount, e) ==
    CASE ~svc.sdk \/ svc.trading_client = None -> Returned(ResErr(EClientGuard), <<>>)
      [] ~PyDecimalParses(amount) ->
            Returned(ResErr("Failed to get bridge quote: " \o DecimalErrMsg), <<>>)
      [] OTHER ->
            ExtCall(svc, EClientGuard, "Failed to get bridge quote: ", "get_bridge_quote",
                    [chain_in |-> chain_in, chain_out |-> chain_out, amount |-> amount],
                    e.a, ResDict({"id", "fee"}, NoVal))

\* Lines 525-540
ext_commit_bridge_quote(svc, quote_id, e) ==
    ExtCall(svc, EClientGuard, "Failed to commit bridge quote: ", "commit_bridge_quote",
            [id |-> quote_id], e.a,
            ResDict({"success", "message", "quote_id"}, [quote_id |-> quote_id]))

Mask == "***MASKED***"

\* Masked without the mask: the value is echoed as the other fields are.
Masked_echo(v) == IF Truthy(v) THEN v ELSE None

\* Lines 636-637: `"***MASKED***" if args.get(k) else None`
Masked(v) == IF Truthy(v) THEN Mask ELSE None

\* Lines 630-650: the test_params result
ReceivedParams(args) ==
    [api_key |-> Masked(Get(args, "api_key")),
     private_key |-> Masked(Get(args, "private_key")),
     public_key |-> Get(args, "public_key"),
     vault |-> Get(args, "vault"),
     environment |-> Get(args, "environment"),
     test_param |-> Get(args, "test_param"),
     timestamp |-> Get(args, "timestamp"),
     all_args_keys |-> { k \in EKeys \ {"_type"} : Has(args, k) }]
TestParamsResult(svc, args) ==
    ResDict({"success", "message", "received_params", "service_config"},
            [received_params |-> ReceivedParams(args),
             service_config |->
                 [sdk_available |-> svc.sdk,
                  trading_client_initialized |-> svc.trading_client # None,
                  data_client_initialized |-> svc.data_client # None]])

\* A handler result together with the lines the handler printed to stdout.
WithPrinted(r, lines) ==
    [raised |-> r.raised, msg |-> r.msg, calls |-> r.calls, res |-> r.res, printed |-> lines]
Quiet(r) == WithPrinted(r, <<>>)

\* args["k"] for each key in ks, in order: the first missing key (Absent when
\* none is missing).
RECURSIVE FirstMissing(_, _)
FirstMissing(args, ks) ==
    IF ks = <<>> THEN Absent
    ELSE IF ~Has(args, Head(ks)) THEN Head(ks)
    ELSE FirstMissing(args, Tail(ks))

\* The keys run_command reads with args[...] for each command (lines 576-629)
RequiredArgs(cmd) ==
    CASE cmd = "get_order_by_id" -> <<"order_id">>
      [] cmd = "place_order" -> <<"market_name", "side", "amount", "price">>
      [] cmd \in {"cancel_order", "cancel_order_by_external_id"} -> <<"external_id">>
      [] cmd \in {"close_position", "get_orderbook", "get_trades"} -> <<"market_name">>
      [] cmd = "withdraw" -> <<"amount">>
      [] cmd = "get_bridge_quote" -> <<"chain_in", "chain_out", "amount">>
      [] cmd = "commit_bridge_quote" -> <<"quote_id">>
      [] OTHER -> <<>>

\* Lines 575-650: run_command, once its required keys are known to be there
RunHandler(cmd, svc, args, e) ==
    CASE cmd = "get_markets" -> Quiet(ext_get_markets(svc, e))
      [] cmd = "get_account_info" -> Quiet(ext_get_account_info(svc, e))
      [] cmd = "get_positions" -> Quiet(ext_get_positions(svc, e))
      [] cmd = "get_orders" -> Quiet(ext_get_orders(svc, Get(args, "market_name"), e))
      [] cmd = "get_order_by_id" -> Quiet(ext_get_order_by_id(svc, args["order_id"], e))
      [] cmd = "place_order" ->
            Quiet(ext_place_order(svc, args["market_name"], args["side"], args["amount"],
                                  args["price"], GetDefault(args, "order_type", "LIMIT"),
                                  GetDefault(args, "time_in_force", "GTC"),
                                  GetDefault(args, "post_only", "False"),
                                  GetDefault(args, "reduce_only", "False"), e))
      [] cmd = "cancel_order" -> ext_cancel_order(svc, args["external_id"], e)
      [] cmd = "cancel_order_by_external_id" ->
            Quiet(ext_cancel_order_by_external_id(svc, args["external_id"], e))
      [] cmd = "cancel_all_orders" ->
            Quiet(ext_cancel_all_orders(svc, Get(args, "market_name"), e))
      [] cmd = "close_position" ->
            Quiet(ext_close_position(svc, args["market_name"],
                                     GetDefault(args, "percentage", "100"), e))
      [] cmd = "get_orderbook" -> Quiet(ext_get_orderbook(svc, args["market_name"], e))
      [] cmd = "get_trades" ->
            Quiet(ext_get_trades(svc, args["market_name"], GetDefault(args, "limit", "50"), e))
      [] cmd = "withdraw" ->
            Quiet(ext_withdraw(svc, args["amount"], Get(args, "stark_address"), e))
      [] cmd = "get_bridge_config" -> Quiet(ext_get_bridge_config(svc, e))
      [] cmd = "get_bridge_quote" ->
            Quiet(ext_get_bridge_quote(svc, args["chain_in"], args["chain_out"],
                                       args["amount"], e))
      [] cmd = "commit_bridge_quote" ->
            Quiet(ext_commit_bridge_quote(svc, args["quote_id"], e))
      [] cmd = "test_params" -> Quiet(Returned(TestParamsResult(svc, args), <<>>))

\* run_command (lines 575-650): a missing key raises KeyError out of it
run_command(cmd, svc, args, e) ==
    Bind(FirstMissing(args, RequiredArgs(cmd)), LAMBDA k :
        IF k # Absent THEN Quiet(Raised(KeyErrorMsg(k), <<>>))
        ELSE RunHandler(cmd, svc, args, e))

(***************************************************************************)
(* main() of extended_trading_service.py: one process run                  *)
(***************************************************************************)

\* A line on stdout: the output of print(json.dumps(x)), or of print(text).
JsonLine(res) == [json |-> res]
TextLine(t) == [text |-> t]
RECURSIVE TextLines(_)
TextLines(ts) == IF ts = <<>> THEN <<>> ELSE <<TextLine(Head(ts))>> \o TextLines(Tail(ts))

NoExtService == [sdk |-> FALSE, api_key |-> Absent, private_key |-> Absent,
                 public_key |-> Absent, vault |-> Absent, environment |-> Absent,
                 trading_client |-> None, data_client |-> None]

\* The process after main has run: what it wrote to stdout, its exit status,
\* whether an ExtendedTradingService was constructed, the service method that
\* ran and the SDK calls made.
Exited(argv, e, out, status, built, svc, name, cs) ==
    [status |-> "exited", argv |-> argv, e |-> e, stdout |-> out, exit |-> status,
     built |-> built, svc |-> svc, ran |-> name, calls |-> cs]

\* Lines 679-681: except Exception as e: print {"error": str(e)}; sys.exit(1)
MainExcept(argv, e, printed, msg, built, svc, name, cs) ==
    Exited(argv, e, printed \o <<JsonLine(ResErr(msg))>>, 1, built, svc, name, cs)

\* ArgsError reading the keys with args.get: a missing key raises nothing.
ArgsError_get(args, ks) ==
    CASE args["_type"] = "missing" -> "list index out of range"
      [] args["_type"] = "invalid" -> "Expecting value: line 1 column 1 (char 0)"
      [] args["_type"] = "list" /\ ks # <<>> -> "list indices must be integers or slices, not str"
      [] OTHER -> Absent

\* json.loads(sys.argv[2]) (lines 564, 658) followed by args["k"] for the keys
\* ks: the message of the exception raised, Absent when there is none.
ArgsError(args, ks) ==
    CASE args["_type"] = "missing" -> "list index out of range"
      [] args["_type"] = "invalid" -> "Expecting value: line 1 column 1 (char 0)"
      [] args["_type"] = "list" /\ ks # <<>> -> "list indices must be integers or slices, not str"
      [] FirstMissing(args, ks) # Absent -> KeyErrorMsg(FirstMissing(args, ks))
      [] OTHER -> Absent

\* PrintResult treating an {"error": ...} result as fatal
PrintResult_fatal(argv, e, svc, name, r) ==
    CASE r.raised -> MainExcept(argv, e, TextLines(r.printed), r.msg, TRUE, svc, name, r.calls)
      [] ~r.res.ser ->
            MainExcept(argv, e, TextLines(r.printed), "Object is not JSON serializable",
                       TRUE, svc, name, r.calls)
      [] OTHER ->
            Exited(argv, e, TextLines(r.printed) \o <<JsonLine(r.res)>>,
                   IF "error" \in r.res.keys THEN 1 ELSE 0, TRUE, svc, name, r.calls)

\* Lines 653-654 (and 673): print(json.dumps(result)) once run_command is done
PrintResult(argv, e, svc, name, r) ==
    CASE r.raised -> MainExcept(argv, e, TextLines(r.printed), r.msg, TRUE, svc, name, r.calls)
      [] ~r.res.ser ->
            MainExcept(argv, e, TextLines(r.printed), "Object is not JSON serializable",
                       TRUE, svc, name, r.calls)
      [] OTHER ->
            Exited(argv, e, TextLines(r.printed) \o <<JsonLine(r.res)>>, 0, TRUE, svc, name,
                   r.calls)

\* The service method run_command calls ("" when it calls none)
MethodOf(cmd, args) ==
    IF cmd = "test_params" \/ FirstMissing(args, RequiredArgs(cmd)) # Absent THEN "" ELSE cmd

\* Lines 559-654: one of the 17 service commands
ServiceCommand(argv, e) ==
    Bind(ArgsError(argv.args, <<"api_key", "private_key", "public_key", "vault">>),
         LAMBDA err :
        IF err # Absent THEN MainExcept(argv, e, <<>>, err, FALSE, NoExtService, "", <<>>)
        ELSE Bind(ExtService(argv.args["api_key"], argv.args["private_key"],
                             argv.args["public_key"], argv.args["vault"],
                             GetDefault(argv.args, "environment", "testnet"), e),
                  LAMBDA svc :
                      PrintResult(argv, e, svc, MethodOf(argv.command, argv.args),
                                  run_command(argv.command, svc, argv.args, e))))

\* int(x, 16) accepts a hexadecimal literal
PyHexParses(x) == x \in {"0xa1", "0xb2", "0xpub"}
HexErrMsg(x) == "invalid literal for int() with base 16: '" \o x \o "'"

\* Lines 542-546: no try/except; get_public_key is a name bound by the SDK import
get_stark_public_key(svc, private_key) ==
    CASE ~PyHexParses(private_key) -> Quiet(Raised(HexErrMsg(private_key), <<>>))
      [] ~svc.sdk -> Quiet(Raised("name 'get_public_key' is not defined", <<>>))
      [] OTHER -> Quiet(Returned(ResDict({"starkKey"}, [starkKey |-> "0xpub"]), <<>>))

\* Lines 656-673: the get_public_key command
PublicKeyCommand(argv, e) ==
    Bind(ArgsError(argv.args, <<"private_key">>), LAMBDA err :
        IF err # Absent THEN MainExcept(argv, e, <<>>, err, FALSE, NoExtService, "", <<>>)
        ELSE Bind(ExtService("dummy", argv.args["private_key"], "dummy", "0", "testnet", e),
                  LAMBDA svc :
                      PrintResult(argv, e, svc, "get_stark_public_key",
                                  get_stark_public_key(svc, argv.args["private_key"]))))

\* UnknownCommand dispatching as the stream transport does: the name is
\* looked up on a service object built from the arguments.
UnknownCommand_getattr(argv, e) ==
    Exited(argv, e, <<JsonLine(ResErr("Unknown command: " \o argv.command))>>, 1,
           argv.args["_type"] = "dict", NoExtService,
           IF argv.command \in {"__init__", "_serialize_object", "get_stark_public_key"}
           THEN argv.command ELSE "", <<>>)

\* Lines 675-677: the else branch of the command chain
UnknownCommand(argv, e) ==
    Exited(argv, e, <<JsonLine(ResErr("Unknown command: " \o argv.command))>>, 1,
           FALSE, NoExtService, "", <<>>)

\* main() (lines 549-681)
ExtMain(argv, e) ==
    CASE argv.command = Absent ->
            Exited(argv, e, <<JsonLine(ResErr("No command provided"))>>, 1, FALSE,
                   NoExtService, "", <<>>)
      [] argv.command \in ExtCommands -> ServiceCommand(argv, e)
      [] argv.command = "get_public_key" -> PublicKeyCommand(argv, e)
      [] OTHER -> UnknownCommand(argv, e)

\* The environment of one run
E0 == [sdk |-> TRUE, client |-> "ok", a |-> "ok", b |-> "ok", c |-> "ok", n |-> 0,
       d |-> "ok", oid |-> Absent, ocid |-> Absent, tr |-> {},
       pos |-> "none", size |-> "2", has |-> TRUE]
EStartups ==
    { [E0 EXCEPT !.sdk = FALSE], [E0 EXCEPT !.client = "fail"], E0 }
EChoices(cmd) ==
    CASE cmd = "get_order_by_id" ->
            EStartups \cup
            { [E0 EXCEPT !.a = a, !.b = b, !.c = c, !.d = d, !.oid = i, !.ocid = x, !.tr = t] :
                  a \in {"ok", "raise"}, b \in {"ok", "raise"},
                  c \in {"ok", "raise"}, d \in {"ok", "raise"},
                  i \in {Absent, "55"}, x \in {Absent, "c1"},
                  t \in SUBSET {1, 2} }
      [] cmd = "place_order" -> { [s EXCEPT !.b = b] : s \in EStartups, b \in {"ok", "raise"} }
      [] cmd = "cancel_all_orders" ->
            { [s EXCEPT !.a = a, !.b = b, !.c = c, !.n = n, !.has = h] :
                  s \in EStartups, a \in {"ok", "raise"}, b \in {"ok", "raise"},
                  c \in {"ok", "raise"}, n \in 0..2, h \in BOOLEAN }
      [] cmd = "close_position" ->
            { [s EXCEPT !.a = a, !.b = b, !.pos = q, !.size = z] :
                  s \in EStartups, a \in {"ok", "raise"}, b \in {"ok", "raise"},
                  q \in {"none", "LONG", "SHORT"}, z \in {"2", "3"} }
      [] cmd = "withdraw" ->
            { [s EXCEPT !.a = a] : s \in EStartups, a \in {"ok", "raise", "object"} }
      [] cmd \in ExtCommands \ {"test_params", "cancel_order"} ->
            { [s EXCEPT !.a = a] : s \in EStartups, a \in {"ok", "raise"} }
      [] OTHER -> EStartups

\* One process run: argv and the environment it meets
EInputs == UNION { { [argv |-> v, e |-> e] : e \in EChoices(v.command) } : v \in EArgvs }

\* The process is started, runs main and exits.
ExtRun(argv, e) ==
    /\ proc = ExtIdle
    /\ proc' = ExtMain(argv, e)
    /\ proc2' = proc2
    /\ UNCHANGED <<grvtVars, serVars>>

\* argv with other (non-empty) values of the two secrets
SecretVariants(argv) ==
    { [argv EXCEPT !.args = [@ EXCEPT !["api_key"] = a, !["private_key"] = k]] :
          a \in ApiKeys \ {""}, k \in PrivateKeys \ {""} }

\* Two runs of test_params in the same environment whose arguments differ
\* only in the values of api_key and private_key.
ExtRunTwice(argv, argv2, e) ==
    /\ proc = ExtIdle
    /\ proc' = ExtMain(argv, e)
    /\ proc2' = ExtMain(argv2, e)
    /\ UNCHANGED <<grvtVars, serVars>>

EPairs ==
    UNION { { [argv |-> v, argv2 |-> w, e |-> e] : w \in SecretVariants(v), e \in EStartups } :
            v \in { x \in EArgvs : /\ x.command = "test_params"
                                   /\ x.args["_type"] = "dict"
                                   /\ Truthy(x.args["api_key"])
                                   /\ Truthy(x.args["private_key"]) } }

\* The caller starts the next process.
Respawn ==
    /\ proc # ExtIdle
    /\ proc' = ExtIdle
    /\ proc2' = ExtIdle
    /\ UNCHANGED <<grvtVars, serVars>>

ExtNextRun == proc = ExtIdle /\ \E i \in EInputs : ExtRun(i.argv, i.e)
ExtNextPair == proc = ExtIdle /\ \E i \in EPairs : ExtRunTwice(i.argv, i.argv2, i.e)
ExtNext == ExtNextRun \/ ExtNextPair \/ Respawn

InitExt == GrvtInitState /\ proc = ExtIdle /\ proc2 = ExtIdle /\ SerIdle

SpecExt == InitExt /\ [][ExtNext]_vars

(***************************************************************************)
(* Properties of the GRVT stream transport (checked under SpecGrvt)        *)
(***************************************************************************)

\* A written line carries an error: {"error": ...} or {"data": {"error": ...}}
CarriesError(l) == l.key = "error" \/ (l.key = "data" /\ "error" \in l.data.keys)

\* C1: after n input lines have been consumed exactly n output lines have
\* been written, whatever the lines held; the line written for a request is
\* {"data": <JSON value>} or {"error": <string>}, and the loop then goes on
\* to the next line.
C1_OneLinePerInput ==
    /\ nout = nread
    /\ gpc = "written" =>
          /\ resp.key \in {"data", "error"}
          /\ resp.key = "data" => resp.data.ser
          /\ resp.key = "error" => resp.data = ResNone
          /\ ENABLED LoopBack

\* C1 witness: the third line, a blank one after a result json.dumps
\* rejected, has its own error line.
C1_Witness ==
    /\ gpc = "written"
    /\ nread >= 2
    /\ nout = nread
    /\ req.kind \in {"blank", "text", "nonobj"}
    /\ resp.key = "error"

\* C2: a request whose command name is not a supported operation is answered
\* with the line {"error": "Unknown command: <name>"} exactly (here for names
\* that are no attribute of the service at all, once the service is created).
C2_UnknownCommandLine ==
    (/\ gpc = "written"
     /\ service.live
     /\ req.kind = "obj"
     /\ req.command \notin GrvtAttrs \cup {Absent})
        => resp = ErrorLine("Unknown command: " \o req.command)

\* C4: a request whose command name is not one of the supported operations
\* runs no handler or other method and leaves the service state unchanged.
C4_OnlyHandlersRun ==
    [][(/\ gpc = "reading"
        /\ gpc' = "written"
        /\ service.live
        /\ req'.kind = "obj"
        /\ req'.command \notin GrvtHandlers)
          => (ran' = "" /\ service' = service)]_vars

\* C5: once the service has been created from the first request, no later
\* request replaces or re-initializes it: its SDK client and credentials stay
\* as they are.
C5_ServiceNeverReinitialized ==
    [][service.live => service' = service]_vars

\* C6: a request of a supported command in which a required parameter is
\* missing or malformed is answered with a response that carries an error.
C6_BadParameterIsError ==
    (/\ gpc = "written"
     /\ req.kind = "obj"
     /\ \/ /\ req.command = "cancel_order_by_external_id"
           /\ ~Has(req.params, "external_id")
        \/ /\ req.command = "place_order"
           /\ \/ req.params["side"] \notin {"BUY", "SELL"}
              \/ ~Has(req.params, "market_name")
              \/ ~Has(req.params, "amount")
        \/ /\ req.command \in {"vault_invest", "vault_redeem"}
           /\ \/ ~PyIntParses(req.params["vault_id"])
              \/ ~PyFloatParses(req.params["amount"])
        \/ /\ req.command \in GrvtHandlers
           /\ nread = 1
           /\ \E k \in {"account_id", "private_key", "api_key"} :
                 ~Truthy(Or(Get(req.params, "trading_" \o k), Get(req.params, k))))
        => CarriesError(resp)

\* C9: whatever exception is raised while a handler builds or executes its
\* SDK call, the handler returns {"error": message}: a dict whose only key is
\* "error", and no exception leaves the handler.
C9_HandlerErrorShape ==
    (gpc = "written" /\ ran \in GrvtHandlers) =>
        /\ resp.key = "data" \/ resp.error = "Object is not JSON serializable"
        /\ (resp.key = "data" /\ "error" \in resp.data.keys) => resp.data.keys = {"error"}

(***************************************************************************)
(* Properties of the Extended process-argument transport (under SpecExt)   *)
(***************************************************************************)

\* The credential keys main reads with args[...] before it builds the service
CredKeys(cmd) ==
    IF cmd = "get_public_key" THEN <<"private_key">>
    ELSE <<"api_key", "private_key", "public_key", "vault">>

\* C3: for a command name that is neither one of the 17 service commands nor
\* get_public_key, stdout is exactly {"error": "Unknown command: <name>"}, no
\* service object is built, no method runs, no SDK call is made, and the
\* exit status is 1.
C3_UnknownCommand ==
    (/\ proc.status = "exited"
     /\ proc.argv.command \notin ExtCommands \cup {"get_public_key", Absent})
        => /\ proc.stdout = <<JsonLine(ResErr("Unknown command: " \o proc.argv.command))>>
           /\ ~proc.built
           /\ proc.svc = NoExtService
           /\ proc.ran = ""
           /\ proc.calls = <<>>
           /\ proc.exit = 1

\* C3 witness: the name of a method of the service class, with well-formed
\* credentials, has been answered.
C3_Witness ==
    /\ proc.status = "exited"
    /\ proc.argv.command = "get_stark_public_key"
    /\ proc.argv.args = EBase1
    /\ proc.stdout = <<JsonLine(ResErr("Unknown command: get_stark_public_key"))>>
    /\ proc.exit = 1

\* C7: one invocation writes exactly one line to stdout, a single JSON value,
\* and nothing before or after it.
C7_OneJsonLine ==
    proc.status = "exited" =>
        /\ Len(proc.stdout) = 1
        /\ DOMAIN proc.stdout[1] = {"json"}

\* C8 as stated: a startup failure (credentials missing from the JSON
\* argument, or the vendor SDK failing to import) is fatal: the error report
\* is the first line of output, no handler produces a result, and the exit
\* status is not zero.
C8_StartupFailureFatal ==
    (/\ proc.status = "exited"
     /\ proc.argv.command \in ExtCommands \cup {"get_public_key"}
     /\ proc.argv.args["_type"] = "dict"
     /\ \/ FirstMissing(proc.argv.args, CredKeys(proc.argv.command)) # Absent
        \/ ~proc.e.sdk)
        => /\ DOMAIN proc.stdout[1] = {"json"}
           /\ proc.stdout[1].json.keys = {"error"}
           /\ proc.ran = ""
           /\ proc.exit # 0

\* C8 amended: credentials missing from the JSON argument are fatal (stdout
\* is the one line {"error": "'<key>'"} naming the first missing key, no
\* service is built, no method runs, exit status 1); a failed SDK import is
\* not: the service is built without clients, no SDK call is made, and a
\* service command whose own arguments are present prints its handler's
\* result (for test_params the success report) as the last line of stdout and
\* exits with status 0.
C8_MissingCredentialsFatal ==
    (/\ proc.status = "exited"
     /\ proc.argv.command \in ExtCommands \cup {"get_public_key"}
     /\ proc.argv.args["_type"] = "dict")
        => /\ FirstMissing(proc.argv.args, CredKeys(proc.argv.command)) # Absent =>
                /\ proc.stdout =
                       <<JsonLine(ResErr(KeyErrorMsg(
                             FirstMissing(proc.argv.args, CredKeys(proc.argv.command)))))>>
                /\ ~proc.built
                /\ proc.ran = ""
                /\ proc.calls = <<>>
                /\ proc.exit = 1
           /\ (/\ FirstMissing(proc.argv.args, CredKeys(proc.argv.command)) = Absent
               /\ ~proc.e.sdk) =>
                /\ proc.built
                /\ proc.svc.trading_client = None
                /\ proc.svc.data_client = None
                /\ proc.calls = <<>>
                /\ (/\ proc.argv.command \in ExtCommands
                    /\ FirstMissing(proc.argv.args, RequiredArgs(proc.argv.command)) = Absent) =>
                        /\ proc.exit = 0
                        /\ DOMAIN proc.stdout[Len(proc.stdout)] = {"json"}
                        /\ proc.argv.command # "test_params" =>
                               proc.stdout[Len(proc.stdout)].json.keys = {"error"}
                        /\ proc.argv.command = "test_params" =>
                               "error" \notin proc.stdout[Len(proc.stdout)].json.keys

\* C8 witness: a run without api_key has ended with the KeyError line.
C8_Witness ==
    /\ proc.status = "exited"
    /\ proc.argv.command = "get_markets"
    /\ ~Has(proc.argv.args, "api_key")
    /\ proc.stdout = <<JsonLine(ResErr("'api_key'"))>>
    /\ proc.exit = 1

\* The strings one run shows on stdout: text lines, error messages, and the
\* values of the fields of received_params.
Shown(l) ==
    IF DOMAIN l = {"text"} THEN {l.text}
    ELSE {l.json.error} \cup
         (IF "received_params" \in l.json.keys
          THEN { l.json.val.received_params[k] :
                     k \in {"api_key", "private_key", "public_key", "vault", "environment",
                            "test_param", "timestamp"} }
          ELSE {})
Stdout(p) == UNION { Shown(p.stdout[i]) : i \in 1..Len(p.stdout) }

\* received_params of a finished test_params run
Received(p) == p.stdout[Len(p.stdout)].json.val.received_params

\* C10: test_params returns received_params whose public_key, vault,
\* environment, test_param and timestamp are the supplied values, whose
\* all_args_keys are the supplied keys and whose api_key and private_key are
\* the mask; two runs that differ only in the (non-empty) values of the two
\* secrets return the same received_params, and no secret value is on stdout.
C10_TestParamsMasked ==
    /\ (proc.status = "exited" /\ proc.argv.command = "test_params" /\ proc.exit = 0) =>
          /\ \A k \in {"public_key", "vault", "environment", "test_param", "timestamp"} :
                Received(proc)[k] = Get(proc.argv.args, k)
          /\ Received(proc).all_args_keys =
                 { k \in EKeys \ {"_type"} : Has(proc.argv.args, k) }
          /\ \A k \in {"api_key", "private_key"} :
                Truthy(proc.argv.args[k]) =>
                    /\ Received(proc)[k] = Mask
                    /\ proc.argv.args[k] \notin Stdout(proc)
    /\ (proc.status = "exited" /\ proc2.status = "exited") =>
          /\ proc.exit = proc2.exit
          /\ proc.exit = 0 => Received(proc) = Received(proc2)
          /\ proc.exit # 0 => proc.stdout = proc2.stdout
          /\ proc.argv.args["api_key"] \notin Stdout(proc)
          /\ proc.argv.args["private_key"] \notin Stdout(proc)
          /\ proc2.argv.args["api_key"] \notin Stdout(proc2)
          /\ proc2.argv.args["private_key"] \notin Stdout(proc2)

\* C10 witness: two finished runs whose secrets both differ
C10_Witness ==
    /\ proc.status = "exited"
    /\ proc2.status = "exited"
    /\ proc.exit = 0
    /\ proc2.exit = 0
    /\ proc.argv.args["api_key"] # proc2.argv.args["api_key"]
    /\ proc.argv.args["private_key"] # proc2.argv.args["private_key"]
    /\ Received(proc).api_key = Mask
    /\ Received(proc2).private_key = Mask
    /\ Received(proc).test_param = "hello"

(***************************************************************************)
(* The response normalizer of the Extended service                         *)
(***************************************************************************)

\* str(obj) of a value json.dumps rejects: one string, e.g. "(Decimal('2.5'),)"
PyStr(v) == Leaf("str", IF v.t = "Decimal" THEN v.v ELSE "repr")

\* ExtendedTradingService._serialize_object (lines 109-127)
RECURSIVE _serialize_object(_)
_serialize_object(obj) ==
    CASE obj.t = "Decimal" -> Leaf("str", obj.v)
      [] obj.t = "dict" ->
            Cont("dict", [i \in 1..Len(obj.items) |-> _serialize_object(obj.items[i])])
      [] obj.t = "list" ->
            Cont("list", [i \in 1..Len(obj.items) |-> _serialize_object(obj.items[i])])
      [] obj.t = "object" ->
            Cont("dict", [i \in 1..Len(obj.items) |-> _serialize_object(obj.items[i])])
      [] obj.t = "todict" ->
            Cont("dict", [i \in 1..Len(obj.items) |-> _serialize_object(obj.items[i])])
      [] OTHER -> IF Dumpable(obj) THEN obj ELSE PyStr(obj)

\* A handler returns self._serialize_object(data) and main prints
\* json.dumps(result) (lines 105, 654).
Serialize ==
    /\ sout = NoJson
    /\ sout' = ToJson(_serialize_object(sobj))
    /\ sobj' = sobj
    /\ UNCHANGED <<grvtVars, extVars>>

\* The SDK hands over the next response.
NextResponse ==
    /\ sout # NoJson
    /\ sobj' \in SerValues(SerDepth)
    /\ sout' = NoJson
    /\ UNCHANGED <<grvtVars, extVars>>

SerNext == Serialize \/ NextResponse

InitSer ==
    /\ GrvtInitState
    /\ proc = ExtIdle
    /\ proc2 = ExtIdle
    /\ sobj \in SerValues(SerDepth)
    /\ sout = NoJson

SpecSer == InitSer /\ [][SerNext]_vars

\* The values of the leaves of kinds ts in a value (or a JSON text)
RECURSIVE LeafValues(_, _)
LeafValues(v, ts) ==
    (IF v.t \in ts THEN {v.v} ELSE {}) \cup
    UNION { LeafValues(v.items[i], ts) : i \in 1..Len(v.items) }

\* C11: every decimal-valued field of a response (a Decimal or a float, at
\* any nesting depth) is emitted as a JSON string, never as a JSON number.
C11_DecimalsAreStrings ==
    sout # NoJson =>
        LeafValues(sout, {"number"}) \cap LeafValues(sobj, {"Decimal", "float"}) = {}

(***************************************************************************)
(* Either wrapper is run: the GRVT stream process or Extended one-shot     *)
(* processes.                                                              *)
(***************************************************************************)
BothNext ==
    \/ proc = ExtIdle /\ GrvtNext
    \/ nread = 0 /\ gpc = "reading" /\ ExtNext

InitBoth == GrvtInitState /\ proc = ExtIdle /\ proc2 = ExtIdle /\ SerIdle

SpecBoth == InitBoth /\ [][BothNext]_vars

\* C12: requests are served one at a time in input order: a line is read
\* only when every earlier line has its response written, the handler that
\* runs is that of the line just read, and its response is written (and
\* flushed) in the same iteration, before the loop reads again.
C12_OneAtATime ==
    [][/\ nread' # nread =>
             /\ gpc = "reading"
             /\ nout = nread
             /\ nread' = nread + 1
             /\ nout' = nread'
             /\ gpc' = "written"
       /\ nout' # nout => nread' = nread + 1
       /\ ran' # "" => (nread' = nread + 1 /\ ran' = req'.command)
       /\ calls' # <<>> => (nread' = nread + 1 /\ ran' \in GrvtHandlers)]_vars

\* C12 witness: the second request has been handled and answered after the
\* first one was.
C12_Witness ==
    /\ gpc = "written"
    /\ nread = 2
    /\ nout = 2
    /\ ran = "get_markets"
    /\ resp.key = "data"

\* No SDK call occurs twice in a sequence of calls
NoRepeat(cs) ==
    \A i \in 1..Len(cs) : \A j \in 1..Len(cs) :
        (i < j /\ cs[i].op = cs[j].op) => cs[i].arg # cs[j].arg

\* C13: nothing is retried: the SDK calls one request causes are pairwise
\* different (operation and arguments), whether or not one of them failed.
C13_NothingRetried ==
    /\ NoRepeat(calls)
    /\ proc.status = "exited" => NoRepeat(proc.calls)

\* C13 witness: cancel_all_orders with two open orders whose first cancel
\* failed made three calls.
C13_Witness ==
    /\ proc.status = "exited"
    /\ proc.ran = "cancel_all_orders"
    /\ proc.e.n = 2
    /\ proc.e.b = "raise"
    /\ Len(proc.calls) = 3
    /\ proc.exit = 0

(***************************************************************************)
(* Extended: cancel_order and close_position                               *)
(***************************************************************************)

\* The SDK calls named op that a finished process made
CallsOf(p, op) == SelectSeq(p.calls, LAMBDA c : c.op = op)
\* The last line a finished process wrote
LastLine(p) == p.stdout[Len(p.stdout)]
\* A finished run of command cmd whose service had a trading client
RanWithClient(p, cmd) ==
    /\ p.status = "exited"
    /\ p.argv.command = cmd
    /\ p.ran = cmd
    /\ p.svc.sdk
    /\ p.svc.trading_client # None

\* C14: cancel_order run through main with an initialized client calls the
\* SDK's cancel_order_by_external_id with the supplied external_id exactly
\* once and, when that call succeeds, prints a result carrying "success" and
\* "message".
C14_CancelOrderCallsSdk ==
    RanWithClient(proc, "cancel_order") =>
        /\ proc.calls = <<SdkCall("cancel_order_by_external_id",
                                  [order_external_id |-> proc.argv.args["external_id"]])>>
        /\ proc.e.a = "ok" =>
               /\ DOMAIN LastLine(proc) = {"json"}
               /\ {"success", "message"} \subseteq LastLine(proc).json.keys

\* C15: the SDK place_order call that close_position causes carries
\* reduce_only = true.
C15_CloseIsReduceOnly ==
    RanWithClient(proc, "close_position") =>
        \A i \in 1..Len(proc.calls) :
            proc.calls[i].op = "place_order" => proc.calls[i].arg.reduce_only = "True"

\* The order type a finished run asked place_order for (Absent: none asked)
RequestedOrderType(p) ==
    CASE p.argv.command = "close_position" -> "MARKET"
      [] p.argv.command = "place_order" -> GetDefault(p.argv.args, "order_type", "LIMIT")
      [] OTHER -> Absent
\* The price a finished run gave place_order
RequestedPrice(p) ==
    IF p.argv.command = "close_position" THEN "0" ELSE Get(p.argv.args, "price")

\* C16: the order_type given to place_order determines the type of the order
\* submitted: a MARKET request is never submitted as a good-till-time limit
\* order at the given price.
C16_MarketIsNotLimit ==
    (proc.status = "exited" /\ RequestedOrderType(proc) = "MARKET") =>
        \A i \in 1..Len(proc.calls) :
            proc.calls[i].op = "place_order" =>
                ~ /\ proc.calls[i].arg.time_in_force = "GTT"
                  /\ proc.calls[i].arg.price = RequestedPrice(proc)
                  /\ proc.calls[i].arg.post_only = "False"

\* The percentage a close_position run passes (line 606)
PercentageOf(p) == GetDefault(p.argv.args, "percentage", "100")
\* The order close_position is to submit for the position of process p
ClosingOrderOk(p) ==
    /\ Len(CallsOf(p, "place_order")) = 1
    /\ CallsOf(p, "place_order")[1].arg.market_name = p.argv.args["market_name"]
    /\ CallsOf(p, "place_order")[1].arg.side = (IF p.e.pos = "LONG" THEN "SELL" ELSE "BUY")
    /\ CallsOf(p, "place_order")[1].arg.amount_of_synthetic =
           DecStr(PyNat(p.e.size) * PyNat(PercentageOf(p)))
\* No order went out and the last line reports an error
NoOrderButError(p) ==
    /\ CallsOf(p, "place_order") = <<>>
    /\ DOMAIN LastLine(p) = {"json"}
    /\ "error" \in LastLine(p).json.keys

\* C17 as stated: when a position for market_name exists, exactly one order
\* is submitted, on the opposite side and with amount = size * percentage /
\* 100; when fetching positions fails or no position exists, an error is
\* returned and no order is submitted.
C17_CloseSubmitsOneOrder ==
    RanWithClient(proc, "close_position") =>
        IF proc.e.a = "raise" \/ proc.e.pos = "none"
        THEN NoOrderButError(proc)
        ELSE ClosingOrderOk(proc)

\* C17, amended: the same when the percentage is a number; a percentage that
\* is not a number gives an error and no order.
C17_CloseSubmitsOneOrderIfNumeric ==
    RanWithClient(proc, "close_position") =>
        IF proc.e.a = "raise" \/ proc.e.pos = "none" \/ ~PyFloatParses(PercentageOf(proc))
        THEN NoOrderButError(proc)
        ELSE ClosingOrderOk(proc)

\* Half of a SHORT position of size 3 is bought back: one BUY order for 1.50
C17_Witness ==
    /\ RanWithClient(proc, "close_position")
    /\ proc.e.a = "ok"
    /\ proc.e.pos = "SHORT"
    /\ proc.e.size = "3"
    /\ PercentageOf(proc) = "50"
    /\ Len(proc.calls) = 2
    /\ proc.calls[2].op = "place_order"
    /\ proc.calls[2].arg.side = "BUY"
    /\ proc.calls[2].arg.amount_of_synthetic = "1.50"

(***************************************************************************)
(* GRVT: place_order                                                       *)
(***************************************************************************)

\* C18: place_order with order_type 'MARKET' submits an order with
\* is_market true, time-in-force IMMEDIATE_OR_CANCEL and limit_price '0'
\* whatever price the caller supplied; any other order_type submits a
\* non-market GOOD_TILL_TIME order carrying the caller's price.
C18_MarketOrderShape ==
    \A i \in 1..Len(calls) :
        calls[i].op = "create_order_v1" =>
            IF GetDefault(req.params, "order_type", "LIMIT") = "MARKET"
            THEN /\ calls[i].arg.is_market
                 /\ calls[i].arg.time_in_force = "IMMEDIATE_OR_CANCEL"
                 /\ calls[i].arg.limit_price = "0"
            ELSE /\ ~calls[i].arg.is_market
                 /\ calls[i].arg.time_in_force = "GOOD_TILL_TIME"
                 /\ Has(req.params, "price") => calls[i].arg.limit_price = req.params["price"]

\* C19: over any sequence of requests in one process no two orders receive
\* the same client_order_id and no two signed requests the same nonce: the
\* ids of the request being sent were not issued before.
C19_IdsUnique ==
    [][ /\ CidsOf(calls') \cap issued.cids = {}
        /\ NoncesOf(calls') \cap issued.nonces = {} ]_vars

\* A place_order call that returned its result dict
PlacedOrder ==
    /\ gpc = "written"
    /\ ran = "place_order"
    /\ resp.key = "data"
    /\ resp.data.keys = PlaceOrderKeys

\* C20: in the place_order result external_id and order_id are equal; they
\* are the exchange-assigned order_id unless that is missing, empty or
\* '0x00', in which case they are the generated client_order_id;
\* client_order_id is the generated one and grvt_order_id the exchange's
\* original value.
C20_PlaceOrderIds ==
    PlacedOrder =>
        /\ resp.data.val.external_id = resp.data.val.order_id
        /\ resp.data.val.order_id =
               (IF world.oid \in {Absent, "", "0x00"} THEN world.cid ELSE world.oid)
        /\ resp.data.val.client_order_id = world.cid
        /\ resp.data.val.client_order_id = calls[Len(calls)].arg.client_order_id
        /\ resp.data.val.grvt_order_id = (IF world.oid = Absent THEN None ELSE world.oid)

\* The exchange answered '0x00': the generated client id is reported
C20_Witness ==
    /\ PlacedOrder
    /\ world.oid = "0x00"
    /\ world.cid = "22"
    /\ resp.data.val.external_id = "22"
    /\ resp.data.val.grvt_order_id = "0x00"

(***************************************************************************)
(* GRVT: cancel_order_by_external_id                                       *)
(***************************************************************************)

\* A cancel_order_by_external_id call on a params dict has been answered
CancelServed ==
    /\ gpc = "written"
    /\ ran = "cancel_order_by_external_id"
    /\ req.params["_type"] = "dict"

\* The cancel request carries the identifier x in exactly one field:
\* client_order_id when x parses as an integer, order_id otherwise
OneIdentifier(a, x) ==
    IF x # None /\ PyIntParses(x)
    THEN a.client_order_id = x /\ a.order_id = Absent
    ELSE a.order_id = x /\ a.client_order_id = Absent

\* C21: cancel_order_by_external_id sets exactly one identifier field on the
\* cancel request (client_order_id when external_id parses as an integer,
\* order_id otherwise), makes exactly one cancel_order_v1 call and returns
\* {"success": true} unless the SDK returns an error or raises.
C21_CancelRequest ==
    CancelServed =>
        /\ Len(calls) = 1
        /\ calls[1].op = "cancel_order_v1"
        /\ OneIdentifier(calls[1].arg, Get(req.params, "external_id"))
        /\ resp.key = "data"
        /\ world.a = "ok" => resp.data.keys = {"success"}
        /\ world.a # "ok" => resp.data.keys = {"error"}

\* A cancel request went out for an external_id that an earlier place_order
\* of this process returned with origin g
CancelOfPlaced(g) ==
    /\ CancelServed
    /\ Len(calls) = 1
    /\ [id |-> req.params["external_id"], origin |-> g] \in issued.placed

C22_WitnessExchange ==
    /\ CancelOfPlaced("exchange")
    /\ calls[1].arg.order_id = "0xabc"

(***************************************************************************)
(* Extended: cancel_all_orders                                             *)
(***************************************************************************)

\* A finished cancel_all_orders run that got the list of open orders
CancelAllRan ==
    /\ RanWithClient(proc, "cancel_all_orders")
    /\ proc.e.a = "ok"
    /\ DOMAIN LastLine(proc) = {"json"}

\* Every open order was attempted, in order, and the result reports exactly
\* those whose cancel call succeeded
AllAttempted(p) ==
    /\ Len(CallsOf(p, "cancel_order")) = p.e.n
    /\ \A i \in 1..p.e.n : CallsOf(p, "cancel_order")[i].arg.order_id = i
    /\ LastLine(p).json.val.cancelled_orders =
           { i \in 1..p.e.n : (IF i = 1 THEN p.e.b ELSE p.e.c) = "ok" }
    /\ LastLine(p).json.val.cancelled_count =
           Cardinality(LastLine(p).json.val.cancelled_orders)
    /\ LastLine(p).json.val.cancelled_count <= p.e.n
\* No order was attempted and the result reports none cancelled
NoneAttempted(p) ==
    /\ CallsOf(p, "cancel_order") = <<>>
    /\ LastLine(p).json.val.cancelled_count = 0
    /\ LastLine(p).json.val.cancelled_orders = {}

\* C23 as stated: with no open orders cancel_all_orders returns
\* cancelled_count 0 and cancels nothing; otherwise it attempts the open
\* orders in order, a failed cancel does not stop the following attempts,
\* cancelled_orders holds exactly the ids whose cancel succeeded, and
\* cancelled_count = length of cancelled_orders <= number of open orders.
C23_CancelAllAttemptsEach ==
    CancelAllRan =>
        IF proc.e.n = 0 THEN NoneAttempted(proc) ELSE AllAttempted(proc)

\* C23, amended: the same when the trading client has a cancel_order method;
\* when it has none, no order is attempted and none is reported cancelled.
C23_CancelAllIfMethod ==
    CancelAllRan =>
        IF proc.e.n = 0 \/ ~proc.e.has THEN NoneAttempted(proc) ELSE AllAttempted(proc)

\* The first of two cancels fails, the second is still attempted and succeeds
C23_Witness ==
    /\ CancelAllRan
    /\ proc.e.has
    /\ proc.e.n = 2
    /\ proc.e.b = "raise"
    /\ proc.e.c = "ok"
    /\ Len(proc.calls) = 3
    /\ LastLine(proc).json.val.cancelled_orders = {2}
    /\ LastLine(proc).json.val.cancelled_count = 1

(***************************************************************************)
(* Extended: get_order_by_id                                               *)
(***************************************************************************)

\* A finished get_order_by_id run whose open-orders query succeeded
GetOrderRan ==
    /\ RanWithClient(proc, "get_order_by_id")
    /\ proc.e.a = "ok"
    /\ DOMAIN LastLine(proc) = {"json"}

\* The open order of the run has order_id as its id or its client_order_id
OpenHasId(p) ==
    /\ p.e.oid # Absent
    /\ \/ p.e.oid = p.argv.args["order_id"]
       \/ p.e.ocid # Absent /\ p.e.ocid = p.argv.args["order_id"]
\* The markets whose trade query succeeded and reported a trade of order_id
TradeMarkets(p) ==
    { k \in p.e.tr : /\ (IF k = 1 THEN p.e.c ELSE p.e.d) = "ok"
                     /\ p.argv.args["order_id"] = TradeOrderId }
\* The first of a non-empty set of market indices
FirstOf(ks) == CHOOSE k \in ks : \A j \in ks : k <= j

\* C24: get_order_by_id looks in the open orders first: if an open order's id
\* or client_order_id equals order_id it returns that order without querying
\* markets or trades; only otherwise does it scan the trades of each market
\* (skipping a market whose trade query fails) and return a reconstructed
\* order with status 'FILLED' for the first matching trade; if nothing
\* matches, or the market scan fails, it returns the 'not found' error.
C24_OpenOrdersFirst ==
    GetOrderRan =>
        CASE OpenHasId(proc) ->
                /\ Len(proc.calls) = 1
                /\ proc.calls[1].op = "get_open_orders"
                /\ LastLine(proc).json.keys = {"id", "status"}
                /\ LastLine(proc).json.val.id = proc.e.oid
          [] proc.e.b = "ok" /\ TradeMarkets(proc) # {} ->
                /\ Len(proc.calls) = 2 + FirstOf(TradeMarkets(proc))
                /\ proc.calls[2].op = "get_markets"
                /\ \A k \in 1..FirstOf(TradeMarkets(proc)) :
                       /\ proc.calls[2 + k].op = "get_trades"
                       /\ proc.calls[2 + k].arg.market_name = Markets[k]
                /\ LastLine(proc).json.val.status = "FILLED"
                /\ LastLine(proc).json.val.id = proc.argv.args["order_id"]
                /\ LastLine(proc).json.val.market_name = Markets[FirstOf(TradeMarkets(proc))]
          [] OTHER ->
                /\ Len(proc.calls) >= 2
                /\ proc.calls[2].op = "get_markets"
                /\ LastLine(proc).json.keys = {"error"}
                /\ LastLine(proc).json.error = NotFoundMsg(proc.argv.args["order_id"])

(***************************************************************************)
(* Extended: exit status                                                   *)
(***************************************************************************)

\* An exception reaches the except of main: the JSON argument is missing,
\* invalid or no object, a key read with args[...] is missing, the
\* get_public_key helper raises, or json.dumps rejects the result
ReachesMain(p) ==
    /\ p.argv.command \in ExtCommands \cup {"get_public_key"}
    /\ \/ p.argv.args["_type"] # "dict"
       \/ FirstMissing(p.argv.args, CredKeys(p.argv.command)) # Absent
       \/ FirstMissing(p.argv.args, RequiredArgs(p.argv.command)) # Absent
       \/ /\ p.argv.command = "get_public_key"
          /\ ~PyHexParses(p.argv.args["private_key"]) \/ ~p.e.sdk
       \/ /\ p.argv.command = "withdraw"
          /\ p.e.a = "object"
          /\ CallsOf(p, "withdraw") # <<>>

\* C25: the process exits with status 1 exactly when no command was given
\* (and then prints {"error": "No command provided"}), the command is
\* unknown, or an exception reaches main; when a handler itself returns an
\* {"error": ...} object the process prints it and exits with status 0.
C25_ExitStatus ==
    proc.status = "exited" =>
        /\ proc.exit \in {0, 1}
        /\ proc.exit = 1 <=>
               \/ proc.argv.command = Absent
               \/ proc.argv.command \notin ExtCommands \cup {"get_public_key"}
               \/ ReachesMain(proc)
        /\ proc.argv.command = Absent =>
               proc.stdout = <<JsonLine(ResErr("No command provided"))>>
        /\ proc.exit = 1 =>
               /\ DOMAIN LastLine(proc) = {"json"}
               /\ LastLine(proc).json.keys = {"error"}
        /\ (proc.ran # "" /\ ~ReachesMain(proc)) =>
               /\ proc.exit = 0
               /\ DOMAIN LastLine(proc) = {"json"}

\* A handler's own error is printed and the process exits with status 0
C25_Witness ==
    /\ proc.status = "exited"
    /\ proc.ran = "place_order"
    /\ proc.e.b = "raise"
    /\ proc.calls # <<>>
    /\ LastLine(proc) = JsonLine(ResErr("Failed to place order: " \o SdkRaiseMsg))
    /\ proc.exit = 0

\* A result json.dumps rejects ends the process with status 1
C25_WitnessNotSerializable ==
    /\ proc.status = "exited"
    /\ proc.ran = "withdraw"
    /\ proc.e.a = "object"
    /\ LastLine(proc) = JsonLine(ResErr("Object is not JSON serializable"))
    /\ proc.exit = 1

====
